---- MODULE Spec2Model ----
(***************************************************************************)
(* sns-poster: the browser session manager (internal/utils/browser.go,     *)
(* internal/xhs Service.getBrowser), the per-account cookie store          *)
(* (internal/utils/cookies.go) and the login flow (internal/xhs/           *)
(* xhs_login.go), modelled as state machines.                              *)
(*                                                                         *)
(* Spec      request goroutines calling s.getBrowser().NewPage(accountID)  *)
(*           against a remote engine that can crash and be restarted.      *)
(* SpecCred  request goroutines running Login.Login / Logout against the   *)
(*           cookie files.                                                 *)
(***************************************************************************)
EXTENDS Integers, Sequences, FiniteSets, TLC

\* ----------------------------------------------------------------- bounds
NThreads == 2        \* concurrent request goroutines
MaxConns == 3        \* rod connections opened over the life of the process
MaxAbandoned == 1    \* connect goroutines left running by NewBrowser timeouts

Threads == 1..NThreads

\* An account id is the string of the request, held as its "/"-separated
\* segments: <<>> is "", <<"acct1">> is "acct1", <<"..","cookies">> is
\* "../cookies".
DefaultAccount == <<>>
SessionAccounts == {DefaultAccount, <<"acct1">>}

VARIABLES
    process,            \* "running" | "exited" (logrus.Fatal)
    engineUp,           \* the Rod container answers connections
    conns,              \* Seq of [state, restarted]: the rod connections ever opened;
                        \* restarted: the engine was restarted after it was opened
    browser,            \* Service.browser: 0 (nil) or the index of its connection
    browserMux,         \* Service.browserMux: 0 or the holding thread
    incognitoContexts,  \* Browser.incognitoContexts, per connection: account -> serial (0 absent)
    contextsMux,        \* Browser.contextsMux, per connection: [readers, writer]
    created,            \* per connection: account -> MustIncognito calls that succeeded
    gor,                \* the connect goroutine of the running NewBrowser: "none" | "running"
    resultChan,         \* NewBrowser's resultChan (buffer 1): [full, browser], browser 0 is nil
    abandoned,          \* connect goroutines still running after their NewBrowser timed out
    restarting,         \* threads inside restartRodContainer
    pc, acct, handle, ctx, page,  \* per thread: position, accountID, *Browser, context, page
    restarts,           \* per thread: restartRodContainer calls made by the current call
    lostAtStart,        \* per thread: the service's connection, if it was lost when the
                        \* call began (0 otherwise)
    afterHeal           \* per thread: call began after a restart, engine reachable since

svars == <<process, engineUp, conns, browser, browserMux,
           incognitoContexts, contextsMux, created, gor, resultChan, abandoned,
           restarting, pc, acct, handle, ctx, page, restarts, lostAtStart,
           afterHeal>>

\* ---- the cookie store and the login flow (SpecCred)
VARIABLES
    files,              \* the cookie files: path -> [exists, savedAs, auth]
    jar,                \* per account: its browser context holds an authenticated session
    lpc, lacct,         \* per thread: position in Service.Login, its accountID
    sawAuth,            \* per thread: this Login saw the logged-in marker
    wrote,              \* per thread: this Login wrote the cookie file
    result              \* per thread: how this Login ended

cvars == <<files, jar, lpc, lacct, sawAuth, wrote, result>>

\* ---- one publish request (SpecPublish)
VARIABLES
    ppc,                \* position in Service.PublishContent / NewPublisher / Publish
    ptitle,             \* req.Title
    passets,            \* req.Images: Seq of [exists, size]
    pageOpened,         \* a page was leased for this request
    navs,               \* navigations to publishURL
    handed,             \* image paths handed to the file input (SetFiles)
    typed,              \* the title typed into the title input
    clicked,            \* the submit button was clicked
    pres,               \* how the request ended
    presp               \* the *PublishResponse that PublishContent returned

pvars == <<ppc, ptitle, passets, pageOpened, navs, handed, typed, clicked, pres, presp>>

\* ---- the title truncation on its own (SpecTitle)
VARIABLES
    tpc,                \* "request" | "truncated"
    title,              \* the requested title
    submittedTitle      \* req.Title after the truncation step

tvars == <<tpc, title, submittedTitle>>

\* ---- one cookie file under concurrent SaveCookies / LoadCookies (SpecStore)
VARIABLES
    ddir,               \* the directory of the cookie file exists
    dfile,              \* the cookie file: [exists, data], data a Seq of chunks
    dpc,                \* per thread: position in SaveCookies / LoadCookies
    dcred,              \* per thread: the credential SaveCookies writes
    dpos,               \* per thread: the offset of its open file
    dgot                \* per thread: what LoadCookies returned

dvars == <<ddir, dfile, dpc, dcred, dpos, dgot>>

\* ---- the polling loops of the login and publish flows (SpecPoll)
VARIABLES
    kloop,              \* the loop that runs: "none" | "qr" | "login" | "upload" | "done"
    kinline,            \* the login was started by NewPublisher: Login(context.Background())
    ki,                 \* intervals this loop has slept
    kcancel,            \* the caller's context is done
    klate,              \* intervals this loop began to sleep after the caller's context was done
    kres                \* how the loop ended

kvars == <<kloop, kinline, ki, kcancel, klate, kres>>

yvars == <<kvars, dvars>>

\* ---- the cookie file store, one operation at a time (SpecJar)
VARIABLES
    rstore,             \* the cookie files: path -> [exists, text]
    rknown,             \* per account: [state, cred], the last save or clear made for it
    rgot,               \* what the LoadCookies just made returned: [kind, cred, of]
    rclr,               \* what the ClearCookieFile just made returned
    rC                  \* the cookies of the browser context that SaveCookies marshals

rvars == <<rstore, rknown, rgot, rclr, rC>>

\* ---- the page of each flow invocation (SpecLease)
VARIABLES
    gpc,                \* per thread: "idle" | "leasing" | "flow"
    gkind,              \* per thread: the Service method that runs
    gacct,              \* per thread: its accountID
    gpage,              \* per thread: the local variable page (0: none)
    gleases,            \* per thread: pages NewPage returned to this invocation
    gopen,              \* the pages open in the engine: id -> [open, by, ctx, users]
    gctx,               \* the contexts open in the engine, per account
    glast               \* per thread: how its last invocation ended

gvars == <<gpc, gkind, gacct, gpage, gleases, gopen, gctx, glast>>

\* ---- the steps of one publish on its page (SpecSteps)
VARIABLES
    qpc,                \* position in NewPublisher / Publish / submitPublish
    qlog,               \* the steps that were carried out, in order
    qexpected,          \* len(content.ImagePaths)
    qcounts,            \* the element counts of the last poll, per upload indicator
    qelapsed,           \* seconds waitForUploadComplete has slept
    qres                \* how the publish ended

qvars == <<qpc, qlog, qexpected, qcounts, qelapsed, qres>>

\* ---- the challenge of one login attempt: triggerLoginQRCode and
\* ---- waitAndDisplayQRCode (SpecChallenge)
VARIABLES
    hpc,                \* "none" | "nav" | "trigger" | "probe" | "artifact" | "display" | "wait" | "done"
    hdone,              \* the context of the attempt is done
    hi,                 \* the index into loginSelectors, then the probe count i
    hlog,               \* the strategies tried so far, in order
    hqr,                \* page.Has(".qrcode-img") at the end of triggerLoginQRCode
    hel,                \* the element found: "none" | "src" | "nosrc"
    harts,              \* the artifacts obtained: Seq of "src" | "shot"
    hdisp,              \* the DisplayQRCode calls made: Seq of "ok" | "fail"
    hres                \* how the attempt ended

hvars == <<hpc, hdone, hi, hlog, hqr, hel, harts, hdisp, hres>>

\* ---- the publish endpoint and its success ledger (SpecLedger)
VARIABLES
    epc,                \* per thread: position in xhsPublishHandler
    ekey,               \* per thread: <<req.AccountID, req.URL>>
    eres,               \* per thread: the response of the handler
    ledger,             \* the success sets in Redis, as a set of <<account, URL>>
    pubs                \* per <<account, URL>>: PublishContent calls that succeeded

evars == <<epc, ekey, eres, ledger, pubs>>

\* ---- the images of one request: ProcessImages, then the checks of
\* ---- uploadImages (SpecImages)
VARIABLES
    ipc,                \* "request" | "processed" | "validated"
    imgs,               \* req.Images
    istat,              \* what os.Stat gives for each local path
    ifetch,             \* the image host answers the download with 200
    ipaths,             \* the paths ProcessImages returned
    ierr,               \* ProcessImages returned an error
    ires                \* how the loop of uploadImages ended

ivars == <<ipc, imgs, istat, ifetch, ipaths, ierr, ires>>

xvars == <<pvars, tvars, yvars, rvars, gvars, qvars, hvars, evars, ivars>>

vars == <<svars, cvars, xvars>>

NoCtx == [conn |-> 0, n |-> 0]

\* ------------------------------------------------- the cookie file paths
CredAccounts == {DefaultAccount, <<"acct1">>, <<"..", "cookies">>}

\* filepath.Clean on the segments of a relative path: "." and empty segments
\* go, ".." removes the segment before it (and stays when there is none).
RECURSIVE CleanFrom(_, _)
CleanFrom(stack, rest) ==
    IF rest = <<>> THEN stack
    ELSE LET seg == Head(rest) IN
         IF seg = "." \/ seg = "" THEN CleanFrom(stack, Tail(rest))
         ELSE IF seg = ".."
         THEN IF stack # <<>> /\ stack[Len(stack)] # ".."
              THEN CleanFrom(SubSeq(stack, 1, Len(stack) - 1), Tail(rest))
              ELSE CleanFrom(Append(stack, ".."), Tail(rest))
         ELSE CleanFrom(Append(stack, seg), Tail(rest))

\* filepath.Join: the elements joined by "/" and cleaned
Join(segs) == CleanFrom(<<>>, segs)

\* accountID + ".json"
WithJson(accountID) == [accountID EXCEPT ![Len(accountID)] = @ \o ".json"]

\* filepath.Join(os.TempDir(), "cookies.json")
TmpPath == <<"/tmp", "cookies.json">>

NamedPath(accountID) == Join(<<".", "cookies">> \o WithJson(accountID))

AllPaths ==
    {TmpPath, Join(<<".", "cookies.json">>)}
        \cup {NamedPath(a) : a \in CredAccounts \ {DefaultAccount}}

NoFile == [exists |-> FALSE, savedAs |-> DefaultAccount, auth |-> FALSE]

CredIdle ==
    /\ jar = [a \in CredAccounts |-> FALSE]
    /\ lpc = [t \in Threads |-> "idle"]
    /\ lacct = [t \in Threads |-> DefaultAccount]
    /\ sawAuth = [t \in Threads |-> FALSE]
    /\ wrote = [t \in Threads |-> FALSE]
    /\ result = [t \in Threads |-> "none"]

SessionInit ==
    /\ process = "running"
    /\ engineUp = TRUE
    /\ conns = <<>>
    /\ browser = 0
    /\ browserMux = 0
    /\ incognitoContexts = <<>>
    /\ contextsMux = <<>>
    /\ created = <<>>
    /\ gor = "none"
    /\ resultChan = [full |-> FALSE, browser |-> 0]
    /\ abandoned = 0
    /\ restarting = {}
    /\ pc = [t \in Threads |-> "idle"]
    /\ acct = [t \in Threads |-> DefaultAccount]
    /\ handle = [t \in Threads |-> 0]
    /\ ctx = [t \in Threads |-> NoCtx]
    /\ page = [t \in Threads |-> 0]
    /\ restarts = [t \in Threads |-> 0]
    /\ lostAtStart = [t \in Threads |-> 0]
    /\ afterHeal = [t \in Threads |-> FALSE]

\* the response of a request that has returned none (a nil *PublishResponse)
NoResponse == [isNil |-> TRUE, title |-> <<>>, images |-> 0, status |-> "none"]

PubIdle ==
    /\ ppc = "idle"
    /\ ptitle = <<>>
    /\ passets = <<>>
    /\ pageOpened = FALSE
    /\ navs = 0
    /\ handed = 0
    /\ typed = <<>>
    /\ clicked = FALSE
    /\ pres = "none"
    /\ presp = NoResponse

TitleIdle ==
    /\ tpc = "request"
    /\ title = <<>>
    /\ submittedTitle = <<>>

PollIdle ==
    /\ kloop = "none"
    /\ kinline = FALSE
    /\ ki = 0
    /\ kcancel = FALSE
    /\ klate = 0
    /\ kres = "none"

\* no LoadCookies has returned yet
NoLoad == [kind |-> "none", data |-> <<>>]

StoreIdle ==
    /\ ddir = FALSE
    /\ dfile = [exists |-> FALSE, data |-> <<>>]
    /\ dpc = [t \in Threads |-> "idle"]
    /\ dcred = [t \in Threads |-> 0]
    /\ dpos = [t \in Threads |-> 0]
    /\ dgot = [t \in Threads |-> NoLoad]

YIdle == PollIdle /\ StoreIdle

\* the accounts of the store model: the default one and one whose id has
\* path segments
StoreAccounts == {DefaultAccount, <<"..", "cookies">>}

NilCred == [isNil |-> TRUE, cookies |-> <<>>]

\* no LoadCookies was just made
NoGot == [kind |-> "none", cred |-> NilCred, of |-> DefaultAccount]

StorePaths == {TmpPath, Join(<<".", "cookies.json">>)}

NoText == [exists |-> FALSE, text |-> <<>>]

JarIdle ==
    /\ rstore = [p \in StorePaths |-> NoText]
    /\ rknown = [a \in StoreAccounts |-> [state |-> "unknown", cred |-> NilCred]]
    /\ rgot = NoGot
    /\ rclr = "none"
    /\ rC = NilCred

\* the page ids of the engine
MaxPages == 3

PageIds == 1..MaxPages

NoPage == [open |-> FALSE, by |-> 0, ctx |-> DefaultAccount, users |-> {}]

LeaseIdle ==
    /\ gpc = [t \in Threads |-> "idle"]
    /\ gkind = [t \in Threads |-> "none"]
    /\ gacct = [t \in Threads |-> DefaultAccount]
    /\ gpage = [t \in Threads |-> 0]
    /\ gleases = [t \in Threads |-> 0]
    /\ gopen = [i \in PageIds |-> NoPage]
    /\ gctx = [a \in SessionAccounts |-> FALSE]
    /\ glast = [t \in Threads |-> "none"]

\* the first of the uploadIndicators of waitForUploadComplete
uploadIndicators == <<".img-preview-area .pr", ".img-preview img", "[class*='preview'] img">>

StepsIdle ==
    /\ qpc = "idle"
    /\ qlog = <<>>
    /\ qexpected = 0
    /\ qcounts = [s \in DOMAIN uploadIndicators |-> 0]
    /\ qelapsed = 0
    /\ qres = "none"

ChallengeIdle ==
    /\ hpc = "none"
    /\ hdone = FALSE
    /\ hi = 0
    /\ hlog = <<>>
    /\ hqr = FALSE
    /\ hel = "none"
    /\ harts = <<>>
    /\ hdisp = <<>>
    /\ hres = "none"

\* the <<account, URL>> pairs of the publish requests: two URLs of one
\* account, and one of them for another account
LedgerKeys ==
    {<<DefaultAccount, "url1">>, <<DefaultAccount, "url2">>, <<<<"acct1">>, "url1">>}

LedgerIdle ==
    /\ epc = [t \in Threads |-> "idle"]
    /\ ekey = [t \in Threads |-> <<DefaultAccount, "url1">>]
    /\ eres = [t \in Threads |-> "none"]
    /\ ledger = {}
    /\ pubs = [k \in LedgerKeys |-> 0]

\* the local paths of the model: two of the request, and the file that
\* downloadImage writes for the one URL
LocalPaths == {"a.jpg", "b.jpg", "/tmp/xhs-poster/img_c.jpg"}

ImagesIdle ==
    /\ ipc = "request"
    /\ imgs = <<>>
    /\ istat = [p \in LocalPaths |-> "missing"]
    /\ ifetch = FALSE
    /\ ipaths = <<>>
    /\ ierr = FALSE
    /\ ires = "none"

XIdle == PubIdle /\ TitleIdle /\ YIdle /\ JarIdle /\ LeaseIdle /\ StepsIdle /\ ChallengeIdle /\ LedgerIdle /\ ImagesIdle

Init ==
    /\ SessionInit
    /\ files = [p \in AllPaths |-> NoFile]
    /\ CredIdle
    /\ XIdle

\* ------------------------------------------------------------ the engine
Running == process = "running"

\* Every connection that is open to the engine drops when the engine goes away.
DropLive(cs) ==
    [i \in DOMAIN cs |-> IF cs[i].state = "Live" THEN [cs[i] EXCEPT !.state = "Lost"] ELSE cs[i]]

\* A new rod connection to the running engine; its index is Len(conns) + 1.
OpenConn ==
    /\ Len(conns) < MaxConns
    /\ conns' = Append(conns, [state |-> "Live", restarted |-> FALSE])
    /\ incognitoContexts' = Append(incognitoContexts, [a \in SessionAccounts |-> 0])
    /\ contextsMux' = Append(contextsMux, [readers |-> {}, writer |-> 0])
    /\ created' = Append(created, [a \in SessionAccounts |-> 0])

\* The engine process dies (forcibly killed mid-session).
EngineCrash ==
    /\ Running /\ engineUp
    /\ engineUp' = FALSE
    /\ conns' = DropLive(conns)
    /\ afterHeal' = [t \in Threads |-> FALSE]
    /\ UNCHANGED <<process, browser, browserMux, incognitoContexts,
                   contextsMux, created, gor, resultChan, abandoned, restarting, pc,
                   acct, handle, ctx, page, restarts, lostAtStart>>
    /\ UNCHANGED <<cvars, xvars>>

\* The service's connection is cut while the engine stays reachable.
ConnKill ==
    /\ Running
    /\ browser # 0 /\ conns[browser].state = "Live"
    /\ conns' = [conns EXCEPT ![browser].state = "Lost"]
    /\ afterHeal' = [t \in Threads |-> FALSE]
    /\ UNCHANGED <<process, engineUp, browser, browserMux,
                   incognitoContexts, contextsMux, created, gor, resultChan, abandoned,
                   restarting, pc, acct, handle, ctx, page, restarts, lostAtStart>>
    /\ UNCHANGED <<cvars, xvars>>

\* restartRodContainer: "docker restart xhs-poster-rod" and a 5 s sleep. When the
\* command succeeds the engine is a new process and every connection to
\* the old one is gone; when it fails the engine is left as it was.
restartRodContainer(ok) ==
    IF ok
    THEN /\ engineUp' = TRUE
         /\ conns' = [i \in DOMAIN conns |-> [DropLive(conns)[i] EXCEPT !.restarted = TRUE]]
         /\ afterHeal' = [t \in Threads |-> FALSE]
    ELSE UNCHANGED <<engineUp, conns, afterHeal>>

\* ------------------------------------------------- Service.getBrowser
\* rod's Browser.GetContext returns the context stored in the Browser value;
\* it sends nothing to the engine, so it does not panic on a dead connection.
GetContextPanics(b) == FALSE

isBrowserConnected ==
    IF browser = 0 THEN FALSE ELSE ~GetContextPanics(browser)

\* getBrowser, running under browserMux: the first call goes on to NewBrowser;
\* a later call probes the connection, and on a failed probe closes the old
\* browser and goes on to NewBrowser; otherwise it returns s.browser (the
\* deferred Unlock runs in the same step).
getBrowser(t) ==
    /\ browserMux = 0
    /\ IF browser = 0
       THEN /\ browserMux' = t
            /\ pc' = [pc EXCEPT ![t] = "nb_start"]
            /\ UNCHANGED <<handle, conns>>
       ELSE IF ~isBrowserConnected
       THEN /\ browserMux' = t
            /\ conns' = [conns EXCEPT ![browser].state = "Closed"]
            /\ pc' = [pc EXCEPT ![t] = "nb_start"]
            /\ UNCHANGED handle
       ELSE /\ handle' = [handle EXCEPT ![t] = browser]
            /\ pc' = [pc EXCEPT ![t] = "np_ctx"]
            /\ UNCHANGED <<browserMux, conns>>

\* A request runs s.getBrowser().NewPage(accountID): it starts once it has
\* browserMux (a request that finds the mutex held waits, still idle here).
Call(t, a) ==
    /\ Running /\ pc[t] = "idle"
    /\ acct' = [acct EXCEPT ![t] = a]
    /\ lostAtStart' = [lostAtStart EXCEPT ![t] =
                          IF browser # 0 /\ conns[browser].state = "Lost" THEN browser ELSE 0]
    /\ afterHeal' = [afterHeal EXCEPT ![t] =
                        /\ browser # 0 /\ conns[browser].state = "Lost"
                        /\ engineUp /\ conns[browser].restarted
                        /\ restarting = {}]
    /\ getBrowser(t)
    /\ UNCHANGED <<process, engineUp, browser, incognitoContexts,
                   contextsMux, created, gor, resultChan, abandoned, restarting, ctx,
                   page, restarts>>
    /\ UNCHANGED <<cvars, xvars>>

\* --------------------------------------------------------- NewBrowser
\* NewBrowser: launcher.MustNewManaged("") asks the manager for its defaults
\* over HTTP and panics when the manager does not answer; the panic leaves
\* NewBrowser and getBrowser (whose deferred Unlock runs) with s.browser still
\* nil. Otherwise NewBrowser starts the connect goroutine and waits on
\* resultChan or the 10 s timer.
NewBrowserStart(t) ==
    /\ Running /\ pc[t] = "nb_start"
    /\ IF engineUp
       THEN /\ gor' = "running"
            /\ resultChan' = [full |-> FALSE, browser |-> 0]
            /\ pc' = [pc EXCEPT ![t] = "nb_select"]
            /\ UNCHANGED browserMux
       ELSE /\ pc' = [pc EXCEPT ![t] = "nb_panicked"]
            /\ browserMux' = 0
            /\ UNCHANGED <<gor, resultChan>>
    /\ UNCHANGED <<process, engineUp, conns, browser,
                   incognitoContexts, contextsMux, created, abandoned,
                   restarting, acct, handle, ctx, page, restarts, lostAtStart,
                   afterHeal>>
    /\ UNCHANGED <<cvars, xvars>>

\* The goroutine's MustConnect succeeds: the browser goes into resultChan.
ConnectOk ==
    /\ Running /\ gor = "running" /\ engineUp
    /\ OpenConn
    /\ resultChan' = [full |-> TRUE, browser |-> Len(conns) + 1]
    /\ gor' = "none"
    /\ UNCHANGED <<process, engineUp, browser, browserMux,
                   abandoned, restarting, pc, acct, handle, ctx, page, restarts,
                   lostAtStart, afterHeal>>
    /\ UNCHANGED <<cvars, xvars>>

\* The goroutine's MustConnect panics: its recover sends result{nil, nil}.
ConnectFail ==
    /\ Running /\ gor = "running"
    /\ resultChan' = [full |-> TRUE, browser |-> 0]
    /\ gor' = "none"
    /\ UNCHANGED <<process, engineUp, conns, browser,
                   browserMux, incognitoContexts, contextsMux, created, abandoned,
                   restarting, pc, acct, handle, ctx, page, restarts, lostAtStart,
                   afterHeal>>
    /\ UNCHANGED <<cvars, xvars>>

\* s.browser = &Browser{...}; getBrowser returns it and unlocks browserMux.
InstallBrowser(t, c) ==
    /\ browser' = c
    /\ browserMux' = 0
    /\ handle' = [handle EXCEPT ![t] = c]
    /\ pc' = [pc EXCEPT ![t] = "np_ctx"]

\* case res := <-resultChan
NewBrowserResult(t) ==
    /\ Running /\ pc[t] = "nb_select" /\ resultChan.full
    /\ resultChan' = [full |-> FALSE, browser |-> 0]
    /\ IF resultChan.browser = 0
       THEN /\ pc' = [pc EXCEPT ![t] = "nb_restart"]
            /\ UNCHANGED <<browser, browserMux, handle>>
       ELSE InstallBrowser(t, resultChan.browser)
    /\ UNCHANGED <<process, engineUp, conns,
                   incognitoContexts, contextsMux, created, gor, abandoned, restarting,
                   acct, ctx, page, restarts, lostAtStart, afterHeal>>
    /\ UNCHANGED <<cvars, xvars>>

\* case <-connectCtx.Done(): the goroutine is left running, nothing cancels it.
NewBrowserTimeout(t) ==
    /\ Running /\ pc[t] = "nb_select" /\ ~resultChan.full /\ gor = "running"
    /\ abandoned < MaxAbandoned
    /\ gor' = "none"
    /\ abandoned' = abandoned + 1
    /\ pc' = [pc EXCEPT ![t] = "nb_restart"]
    /\ UNCHANGED <<process, engineUp, conns, browser,
                   browserMux, incognitoContexts, contextsMux, created, resultChan,
                   restarting, acct, handle, ctx, page, restarts, lostAtStart,
                   afterHeal>>
    /\ UNCHANGED <<cvars, xvars>>

\* An abandoned goroutine's MustConnect returns: the browser goes into the
\* buffered resultChan that nobody reads any more.
AbandonedConnectOk ==
    /\ Running /\ abandoned > 0 /\ engineUp
    /\ OpenConn
    /\ abandoned' = abandoned - 1
    /\ UNCHANGED <<process, engineUp, browser, browserMux,
                   gor, resultChan, restarting, pc, acct, handle, ctx, page, restarts,
                   lostAtStart, afterHeal>>
    /\ UNCHANGED <<cvars, xvars>>

AbandonedConnectFail ==
    /\ Running /\ abandoned > 0
    /\ abandoned' = abandoned - 1
    /\ UNCHANGED <<process, engineUp, conns, browser,
                   browserMux, incognitoContexts, contextsMux, created, gor,
                   resultChan, restarting, pc, acct, handle, ctx, page, restarts,
                   lostAtStart, afterHeal>>
    /\ UNCHANGED <<cvars, xvars>>

\* restartRodContainer() called from NewBrowser
NewBrowserRestart(t) ==
    /\ Running /\ pc[t] = "nb_restart"
    /\ restarting' = restarting \cup {t}
    /\ restarts' = [restarts EXCEPT ![t] = @ + 1]
    /\ pc' = [pc EXCEPT ![t] = "nb_restarting"]
    /\ UNCHANGED <<process, engineUp, conns, browser,
                   browserMux, incognitoContexts, contextsMux, created, gor,
                   resultChan, abandoned, acct, handle, ctx, page, lostAtStart,
                   afterHeal>>
    /\ UNCHANGED <<cvars, xvars>>

\* it returns: on an error logrus.Fatal ends the process
NewBrowserRestartDone(t) ==
    /\ Running /\ pc[t] = "nb_restarting"
    /\ restarting' = restarting \ {t}
    /\ \E ok \in BOOLEAN :
          /\ restartRodContainer(ok)
          /\ IF ok
             THEN pc' = [pc EXCEPT ![t] = "nb_retry"] /\ UNCHANGED process
             ELSE process' = "exited" /\ UNCHANGED pc
    /\ UNCHANGED <<browser, browserMux, incognitoContexts, contextsMux,
                   created, gor, resultChan, abandoned, acct, handle, ctx, page,
                   restarts, lostAtStart>>
    /\ UNCHANGED <<cvars, xvars>>

\* The second attempt, without a timeout: rod.New().Client(l.MustClient()),
\* then browser.Connect(). MustClient dials the manager and panics when the
\* dial fails (the panic leaves NewBrowser and getBrowser, s.browser stays
\* nil); an error of Connect is logrus.Fatalf.
NewBrowserRetry(t) ==
    /\ Running /\ pc[t] = "nb_retry"
    /\ \E r \in {"connected", "connect_error", "client_panic"} :
          CASE r = "connected" ->
                  /\ engineUp
                  /\ OpenConn
                  /\ InstallBrowser(t, Len(conns) + 1)
                  /\ UNCHANGED process
            [] r = "connect_error" ->
                  /\ process' = "exited"
                  /\ UNCHANGED <<conns, incognitoContexts, contextsMux, created,
                                 browser, browserMux, handle, pc>>
            [] r = "client_panic" ->
                  /\ pc' = [pc EXCEPT ![t] = "nb_panicked"]
                  /\ browserMux' = 0
                  /\ UNCHANGED <<process, conns, incognitoContexts, contextsMux,
                                 created, browser, handle>>
    /\ UNCHANGED <<engineUp, gor, resultChan, abandoned,
                   restarting, acct, ctx, page, restarts, lostAtStart, afterHeal>>
    /\ UNCHANGED <<cvars, xvars>>

\* --------------------------------- Browser.getOrCreateIncognitoContext
Exists(h, a) == incognitoContexts[h][a] # 0

CachedCtx(h, a) == [conn |-> h, n |-> incognitoContexts[h][a]]

\* accountID == "" returns b.Browser (n = 0 is the root context); otherwise
\* contextsMux.RLock()
CtxEnter(t) ==
    /\ Running /\ pc[t] = "np_ctx"
    /\ IF acct[t] = DefaultAccount
       THEN /\ ctx' = [ctx EXCEPT ![t] = [conn |-> handle[t], n |-> 0]]
            /\ pc' = [pc EXCEPT ![t] = "np_page"]
            /\ UNCHANGED contextsMux
       ELSE /\ contextsMux[handle[t]].writer = 0
            /\ contextsMux' = [contextsMux EXCEPT ![handle[t]].readers = @ \cup {t}]
            /\ pc' = [pc EXCEPT ![t] = "ctx_rcheck"]
            /\ UNCHANGED ctx
    /\ UNCHANGED <<process, engineUp, conns, browser,
                   browserMux, incognitoContexts, created, gor, resultChan, abandoned,
                   restarting, acct, handle, page, restarts, lostAtStart, afterHeal>>
    /\ UNCHANGED <<cvars, xvars>>

\* (mutant) the miss goes on to Lock() with the read lock still held
CtxReadCheck_KeepsReadLock(t) ==
    /\ Running /\ pc[t] = "ctx_rcheck"
    /\ IF Exists(handle[t], acct[t])
       THEN /\ contextsMux' = [contextsMux EXCEPT ![handle[t]].readers = @ \ {t}]
            /\ ctx' = [ctx EXCEPT ![t] = CachedCtx(handle[t], acct[t])]
            /\ pc' = [pc EXCEPT ![t] = "np_page"]
       ELSE /\ pc' = [pc EXCEPT ![t] = "ctx_wlock"]
            /\ UNCHANGED <<ctx, contextsMux>>
    /\ UNCHANGED <<process, engineUp, conns, browser,
                   browserMux, incognitoContexts, created, gor, resultChan, abandoned,
                   restarting, acct, handle, page, restarts, lostAtStart, afterHeal>>
    /\ UNCHANGED <<cvars, xvars>>

\* the lookup under the read lock, then RUnlock on both paths
CtxReadCheck(t) ==
    /\ Running /\ pc[t] = "ctx_rcheck"
    /\ contextsMux' = [contextsMux EXCEPT ![handle[t]].readers = @ \ {t}]
    /\ IF Exists(handle[t], acct[t])
       THEN /\ ctx' = [ctx EXCEPT ![t] = CachedCtx(handle[t], acct[t])]
            /\ pc' = [pc EXCEPT ![t] = "np_page"]
       ELSE /\ pc' = [pc EXCEPT ![t] = "ctx_wlock"]
            /\ UNCHANGED ctx
    /\ UNCHANGED <<process, engineUp, conns, browser,
                   browserMux, incognitoContexts, created, gor, resultChan, abandoned,
                   restarting, acct, handle, page, restarts, lostAtStart, afterHeal>>
    /\ UNCHANGED <<cvars, xvars>>

\* contextsMux.Lock()
CtxWriteLock(t) ==
    /\ Running /\ pc[t] = "ctx_wlock"
    /\ contextsMux[handle[t]].writer = 0
    /\ contextsMux[handle[t]].readers = {}
    /\ contextsMux' = [contextsMux EXCEPT ![handle[t]].writer = t]
    /\ pc' = [pc EXCEPT ![t] = "ctx_wcheck"]
    /\ UNCHANGED <<process, engineUp, conns, browser,
                   browserMux, incognitoContexts, created, gor, resultChan, abandoned,
                   restarting, acct, handle, ctx, page, restarts, lostAtStart,
                   afterHeal>>
    /\ UNCHANGED <<cvars, xvars>>

\* (mutant) the write-locked path creates the context without looking again
CtxWriteCheck_NoRecheck(t) ==
    /\ Running /\ pc[t] = "ctx_wcheck"
    /\ contextsMux' = [contextsMux EXCEPT ![handle[t]].writer = 0]
    /\ IF conns[handle[t]].state = "Live"
       THEN /\ created' = [created EXCEPT ![handle[t]][acct[t]] = @ + 1]
            /\ incognitoContexts' = [incognitoContexts EXCEPT ![handle[t]][acct[t]] =
                                        created[handle[t]][acct[t]] + 1]
            /\ ctx' = [ctx EXCEPT ![t] =
                          [conn |-> handle[t], n |-> created[handle[t]][acct[t]] + 1]]
            /\ pc' = [pc EXCEPT ![t] = "np_page"]
       ELSE /\ pc' = [pc EXCEPT ![t] = "np_recover"]
            /\ UNCHANGED <<created, incognitoContexts, ctx>>
    /\ UNCHANGED <<process, engineUp, conns, browser, browserMux, gor, resultChan,
                   abandoned, restarting, acct, handle, page, restarts, lostAtStart,
                   afterHeal>>
    /\ UNCHANGED <<cvars, xvars>>

\* The second lookup, under the write lock; when the account is still absent,
\* b.Browser.MustIncognito(): a new context on a live connection, a panic on
\* a dead one. The deferred Unlock runs on every path.
CtxWriteCheck(t) ==
    /\ Running /\ pc[t] = "ctx_wcheck"
    /\ contextsMux' = [contextsMux EXCEPT ![handle[t]].writer = 0]
    /\ IF Exists(handle[t], acct[t])
       THEN /\ ctx' = [ctx EXCEPT ![t] = CachedCtx(handle[t], acct[t])]
            /\ pc' = [pc EXCEPT ![t] = "np_page"]
            /\ UNCHANGED <<created, incognitoContexts>>
       ELSE IF conns[handle[t]].state = "Live"
       THEN /\ created' = [created EXCEPT ![handle[t]][acct[t]] = @ + 1]
            /\ incognitoContexts' = [incognitoContexts EXCEPT ![handle[t]][acct[t]] =
                                        created[handle[t]][acct[t]] + 1]
            /\ ctx' = [ctx EXCEPT ![t] =
                          [conn |-> handle[t], n |-> created[handle[t]][acct[t]] + 1]]
            /\ pc' = [pc EXCEPT ![t] = "np_page"]
       ELSE /\ pc' = [pc EXCEPT ![t] = "np_recover"]
            /\ UNCHANGED <<created, incognitoContexts, ctx>>
    /\ UNCHANGED <<process, engineUp, conns, browser, browserMux, gor,
                   resultChan, abandoned, restarting, acct, handle, page, restarts,
                   lostAtStart, afterHeal>>
    /\ UNCHANGED <<cvars, xvars>>

\* ----------------------------------------------------- Browser.NewPage
\* browserContext.MustPage(): a page on a live connection, a panic on a dead
\* one. (SetCookies' error is dropped, so loading cookies never diverts.)
MustPage(t) ==
    /\ Running /\ pc[t] = "np_page"
    /\ IF conns[ctx[t].conn].state = "Live"
       THEN /\ page' = [page EXCEPT ![t] = ctx[t].conn]
            /\ pc' = [pc EXCEPT ![t] = "gotPage"]
       ELSE /\ pc' = [pc EXCEPT ![t] = "np_recover"]
            /\ UNCHANGED page
    /\ UNCHANGED <<process, engineUp, conns, browser,
                   browserMux, incognitoContexts, contextsMux, created, gor,
                   resultChan, abandoned, restarting, acct, handle, ctx, restarts,
                   lostAtStart, afterHeal>>
    /\ UNCHANGED <<cvars, xvars>>

\* (mutant) the deferred function panics again without restarting the engine
NewPageRecover_NoRestart(t) ==
    /\ Running /\ pc[t] = "np_recover"
    /\ pc' = [pc EXCEPT ![t] = "panicked"]
    /\ UNCHANGED <<process, engineUp, conns, browser, browserMux, incognitoContexts,
                   contextsMux, created, gor, resultChan, abandoned, restarting, acct,
                   handle, ctx, page, restarts, lostAtStart, afterHeal>>
    /\ UNCHANGED <<cvars, xvars>>

\* the deferred recover() caught the panic: restartRodContainer()
NewPageRecover(t) ==
    /\ Running /\ pc[t] = "np_recover"
    /\ restarting' = restarting \cup {t}
    /\ restarts' = [restarts EXCEPT ![t] = @ + 1]
    /\ pc' = [pc EXCEPT ![t] = "np_restarting"]
    /\ UNCHANGED <<process, engineUp, conns, browser,
                   browserMux, incognitoContexts, contextsMux, created, gor,
                   resultChan, abandoned, acct, handle, ctx, page, lostAtStart,
                   afterHeal>>
    /\ UNCHANGED <<cvars, xvars>>

\* restartRodContainer returned (its error is only logged); logrus.Panic
NewPagePanic(t) ==
    /\ Running /\ pc[t] = "np_restarting"
    /\ restarting' = restarting \ {t}
    /\ \E ok \in BOOLEAN : restartRodContainer(ok)
    /\ pc' = [pc EXCEPT ![t] = "panicked"]
    /\ UNCHANGED <<process, browser, browserMux, incognitoContexts,
                   contextsMux, created, gor, resultChan, abandoned, acct, handle, ctx,
                   page, restarts, lostAtStart>>
    /\ UNCHANGED <<cvars, xvars>>

\* The call is over; the goroutine's locals go away with it.
EndCall(t) ==
    /\ pc' = [pc EXCEPT ![t] = "idle"]
    /\ acct' = [acct EXCEPT ![t] = DefaultAccount]
    /\ handle' = [handle EXCEPT ![t] = 0]
    /\ ctx' = [ctx EXCEPT ![t] = NoCtx]
    /\ page' = [page EXCEPT ![t] = 0]
    /\ restarts' = [restarts EXCEPT ![t] = 0]
    /\ lostAtStart' = [lostAtStart EXCEPT ![t] = 0]
    /\ afterHeal' = [afterHeal EXCEPT ![t] = FALSE]

\* the flow ends: defer page.Close()
ReleasePage(t) ==
    /\ Running /\ pc[t] = "gotPage"
    /\ EndCall(t)
    /\ UNCHANGED <<process, engineUp, conns, browser,
                   browserMux, incognitoContexts, contextsMux, created, gor,
                   resultChan, abandoned, restarting>>
    /\ UNCHANGED <<cvars, xvars>>

\* the panic leaves the Service method; gin.Recovery answers the request
RequestAborted(t) ==
    /\ Running /\ pc[t] \in {"panicked", "nb_panicked"}
    /\ EndCall(t)
    /\ UNCHANGED <<process, engineUp, conns, browser,
                   browserMux, incognitoContexts, contextsMux, created, gor,
                   resultChan, abandoned, restarting>>
    /\ UNCHANGED <<cvars, xvars>>

Next ==
    \/ EngineCrash
    \/ ConnKill
    \/ \E t \in Threads, a \in SessionAccounts : Call(t, a)
    \/ \E t \in Threads : NewBrowserStart(t)
    \/ ConnectOk
    \/ ConnectFail
    \/ \E t \in Threads : NewBrowserResult(t)
    \/ \E t \in Threads : NewBrowserTimeout(t)
    \/ AbandonedConnectOk
    \/ AbandonedConnectFail
    \/ \E t \in Threads : NewBrowserRestart(t)
    \/ \E t \in Threads : NewBrowserRestartDone(t)
    \/ \E t \in Threads : NewBrowserRetry(t)
    \/ \E t \in Threads : CtxEnter(t)
    \/ \E t \in Threads : CtxReadCheck(t)
    \/ \E t \in Threads : CtxWriteLock(t)
    \/ \E t \in Threads : CtxWriteCheck(t)
    \/ \E t \in Threads : MustPage(t)
    \/ \E t \in Threads : NewPageRecover(t)
    \/ \E t \in Threads : NewPagePanic(t)
    \/ \E t \in Threads : ReleasePage(t)
    \/ \E t \in Threads : RequestAborted(t)

Spec == Init /\ [][Next]_vars

\* =====================================================================
\* Service.Close at gracefulShutdown, and the service started again
\* =====================================================================
\* the connections of a process that stops are closed: s.browser by
\* Browser.Close (MustClose), the others with the process
CloseLive(cs) ==
    [i \in DOMAIN cs |-> IF cs[i].state = "Live" THEN [cs[i] EXCEPT !.state = "Closed"] ELSE cs[i]]

\* main returns: the memory of the process is gone (a Service starts with
\* browser nil and no request)
ProcessGone ==
    /\ browser' = 0
    /\ browserMux' = 0
    /\ gor' = "none"
    /\ resultChan' = [full |-> FALSE, browser |-> 0]
    /\ abandoned' = 0
    /\ restarting' = {}
    /\ pc' = [t \in Threads |-> "idle"]
    /\ acct' = [t \in Threads |-> DefaultAccount]
    /\ handle' = [t \in Threads |-> 0]
    /\ ctx' = [t \in Threads |-> NoCtx]
    /\ page' = [t \in Threads |-> 0]
    /\ restarts' = [t \in Threads |-> 0]
    /\ lostAtStart' = [t \in Threads |-> 0]
    /\ afterHeal' = [t \in Threads |-> FALSE]

\* (mutant) the shutdown also takes the engine down
gracefulShutdown_KillsEngine ==
    /\ Running
    /\ process' = "stopped"
    /\ conns' = CloseLive(conns)
    /\ engineUp' = FALSE
    /\ ProcessGone
    /\ UNCHANGED <<incognitoContexts, contextsMux, created>>
    /\ UNCHANGED <<cvars, xvars>>

\* gracefulShutdown: httpServer.Shutdown, then xhsService.Close(), which
\* calls Browser.Close when s.browser is set; neither restartRodContainer nor
\* any other command on the engine's container is run; main returns
gracefulShutdown ==
    /\ Running
    /\ process' = "stopped"
    /\ conns' = CloseLive(conns)
    /\ ProcessGone
    /\ UNCHANGED <<engineUp, incognitoContexts, contextsMux, created>>
    /\ UNCHANGED <<cvars, xvars>>

\* the service is started again: NewService leaves browser nil, so the first
\* request connects. Of the connections of the process before, the new one
\* has none; the model keeps one entry for a connection that was closed at
\* the shutdown.
ServiceStart ==
    /\ process = "stopped"
    /\ process' = "running"
    /\ LET n == IF \E i \in DOMAIN conns : conns[i].state = "Closed" THEN 1 ELSE 0
       IN  /\ conns' = [i \in 1..n |-> [state |-> "Closed", restarted |-> FALSE]]
           /\ incognitoContexts' = [i \in 1..n |-> [a \in SessionAccounts |-> 0]]
           /\ contextsMux' = [i \in 1..n |-> [readers |-> {}, writer |-> 0]]
           /\ created' = [i \in 1..n |-> [a \in SessionAccounts |-> 0]]
    /\ UNCHANGED <<engineUp, browser, browserMux, gor, resultChan, abandoned,
                   restarting, pc, acct, handle, ctx, page, restarts, lostAtStart,
                   afterHeal>>
    /\ UNCHANGED <<cvars, xvars>>

NextClose ==
    \/ Next
    \/ gracefulShutdown
    \/ ServiceStart

SpecClose == Init /\ [][NextClose]_vars

getCookiesFilePath(accountID) ==
    IF accountID = DefaultAccount
    THEN IF files[TmpPath].exists THEN TmpPath ELSE Join(<<".", "cookies.json">>)
    ELSE Join(<<".", "cookies">> \o WithJson(accountID))

\* CookieManager.LoadCookies of NewCookieManagerForAccount(accountID)
LoadCookies(accountID) == files[getCookiesFilePath(accountID)]

\* Service.Login: NewPage(accountID) pushes the stored cookies into the
\* account's context (SetCookies; nothing to push when there are none).
StartLogin(t, a) ==
    /\ lpc[t] = "idle"
    /\ lacct' = [lacct EXCEPT ![t] = a]
    /\ jar' = [jar EXCEPT ![a] = IF LoadCookies(a).exists THEN LoadCookies(a).auth ELSE @]
    /\ lpc' = [lpc EXCEPT ![t] = "lg_nav"]
    /\ UNCHANGED <<files, sawAuth, wrote, result>>
    /\ UNCHANGED <<svars, xvars>>

\* a Login ends with this outcome
LoginEnds(t, r) ==
    /\ result' = [result EXCEPT ![t] = r]
    /\ lpc' = [lpc EXCEPT ![t] = "lg_end"]

\* Login.Login: MustNavigate(explore), then Has(marker); a Has error reads as
\* "not there". The marker is on the page only in an authenticated context.
LoginNavigate(t) ==
    /\ lpc[t] = "lg_nav"
    /\ \E seen \in {"marker", "none", "panic"} :
          CASE seen = "marker" ->
                  /\ jar[lacct[t]]
                  /\ sawAuth' = [sawAuth EXCEPT ![t] = TRUE]
                  /\ lpc' = [lpc EXCEPT ![t] = "lg_userinfo"]
                  /\ UNCHANGED result
            [] seen = "none" ->
                  /\ lpc' = [lpc EXCEPT ![t] = "lg_trigger"]
                  /\ UNCHANGED <<sawAuth, result>>
            [] seen = "panic" ->
                  /\ LoginEnds(t, "panic")
                  /\ UNCHANGED sawAuth
    /\ UNCHANGED <<files, jar, lacct, wrote>>
    /\ UNCHANGED <<svars, xvars>>

\* getUserInfo: the profile link's href, or an error
LoginUserInfo(t) ==
    /\ lpc[t] = "lg_userinfo"
    /\ \E ok \in BOOLEAN :
          IF ok
          THEN lpc' = [lpc EXCEPT ![t] = "lg_save"] /\ UNCHANGED result
          ELSE LoginEnds(t, "userinfo_error")
    /\ UNCHANGED <<files, jar, lacct, sawAuth, wrote>>
    /\ UNCHANGED <<svars, xvars>>

\* triggerLoginQRCode: every path returns nil
LoginTriggerQR(t) ==
    /\ lpc[t] = "lg_trigger"
    /\ lpc' = [lpc EXCEPT ![t] = "lg_qr"]
    /\ UNCHANGED <<files, jar, lacct, sawAuth, wrote, result>>
    /\ UNCHANGED <<svars, xvars>>

\* waitAndDisplayQRCode: the QR element found within 30 probes and shown, or
\* "未找到二维码元素", or a screenshot error
LoginShowQR(t) ==
    /\ lpc[t] = "lg_qr"
    /\ \E r \in {"shown", "qr_not_found", "qr_capture_error"} :
          IF r = "shown"
          THEN lpc' = [lpc EXCEPT ![t] = "lg_wait"] /\ UNCHANGED result
          ELSE LoginEnds(t, r)
    /\ UNCHANGED <<files, jar, lacct, sawAuth, wrote>>
    /\ UNCHANGED <<svars, xvars>>

\* The operator scans the code: the waiting account's context is logged in.
ChallengeCompleted(a) ==
    /\ \E t \in Threads : lpc[t] = "lg_wait" /\ lacct[t] = a
    /\ ~jar[a]
    /\ jar' = [jar EXCEPT ![a] = TRUE]
    /\ UNCHANGED <<files, lpc, lacct, sawAuth, wrote, result>>
    /\ UNCHANGED <<svars, xvars>>

\* CookieManager.SaveCookies: the context's cookies written to the account's file
SaveCookies(t) ==
    /\ files' = [files EXCEPT ![getCookiesFilePath(lacct[t])] =
                    [exists |-> TRUE, savedAs |-> lacct[t], auth |-> jar[lacct[t]]]]
    /\ wrote' = [wrote EXCEPT ![t] = TRUE]

\* (mutant) the wait saves the cookies when it gives up
LoginWait_SaveOnTimeout(t) ==
    /\ lpc[t] = "lg_wait"
    /\ \E r \in {"success", "cancelled", "timeout"} :
          IF r = "success"
          THEN /\ jar[lacct[t]]
               /\ sawAuth' = [sawAuth EXCEPT ![t] = TRUE]
               /\ lpc' = [lpc EXCEPT ![t] = "lg_userinfo"]
               /\ UNCHANGED <<result, files, wrote>>
          ELSE /\ LoginEnds(t, r)
               /\ SaveCookies(t)
               /\ UNCHANGED sawAuth
    /\ UNCHANGED <<jar, lacct>>
    /\ UNCHANGED <<svars, xvars>>

\* waitForLoginSuccess: a poll sees a logged-in marker, or ctx is done, or
\* the 300 s are over (a poll that sees nothing changes nothing)
LoginWait(t) ==
    /\ lpc[t] = "lg_wait"
    /\ \E r \in {"success", "cancelled", "timeout"} :
          IF r = "success"
          THEN /\ jar[lacct[t]]
               /\ sawAuth' = [sawAuth EXCEPT ![t] = TRUE]
               /\ lpc' = [lpc EXCEPT ![t] = "lg_userinfo"]
               /\ UNCHANGED result
          ELSE /\ LoginEnds(t, r)
               /\ UNCHANGED sawAuth
    /\ UNCHANGED <<files, jar, lacct, wrote>>
    /\ UNCHANGED <<svars, xvars>>

\* cookieManager.SaveCookies(pp); its error is only logged, Login returns nil
LoginSave(t) ==
    /\ lpc[t] = "lg_save"
    /\ \E ok \in BOOLEAN :
          IF ok THEN SaveCookies(t) ELSE UNCHANGED <<files, wrote>>
    /\ LoginEnds(t, "ok")
    /\ UNCHANGED <<jar, lacct, sawAuth>>
    /\ UNCHANGED <<svars, xvars>>

\* Service.Login returns its response; defer page.Close()
LoginReturn(t) ==
    /\ lpc[t] = "lg_end"
    /\ lpc' = [lpc EXCEPT ![t] = "idle"]
    /\ lacct' = [lacct EXCEPT ![t] = DefaultAccount]
    /\ sawAuth' = [sawAuth EXCEPT ![t] = FALSE]
    /\ wrote' = [wrote EXCEPT ![t] = FALSE]
    /\ result' = [result EXCEPT ![t] = "none"]
    /\ UNCHANGED <<files, jar>>
    /\ UNCHANGED <<svars, xvars>>

\* Service.Logout: ClearCookieFile removes the account's file (a missing
\* file is no error)
Logout(t, a) ==
    /\ lpc[t] = "idle"
    /\ files[getCookiesFilePath(a)].exists
    /\ files' = [files EXCEPT ![getCookiesFilePath(a)] = NoFile]
    /\ UNCHANGED <<jar, lpc, lacct, sawAuth, wrote, result>>
    /\ UNCHANGED <<svars, xvars>>

\* (mutant) a status check that finds the account logged in saves the
\* cookies of its context
CheckStatus_SavesCookies(t, a) ==
    /\ lpc[t] = "idle"
    /\ lacct' = [lacct EXCEPT ![t] = a]
    /\ jar' = [jar EXCEPT ![a] = IF LoadCookies(a).exists THEN LoadCookies(a).auth ELSE @]
    /\ \E r \in {"authenticated", "not_authenticated", "status_error", "panic"} :
          /\ r = "authenticated" => jar'[a]
          /\ r = "not_authenticated" => ~jar'[a]
          /\ result' = [result EXCEPT ![t] = r]
          /\ files' = IF r = "authenticated"
                      THEN [files EXCEPT ![getCookiesFilePath(a)] =
                               [exists |-> TRUE, savedAs |-> a, auth |-> TRUE]]
                      ELSE files
    /\ lpc' = [lpc EXCEPT ![t] = "cs_end"]
    /\ UNCHANGED <<sawAuth, wrote>>
    /\ UNCHANGED <<svars, xvars>>

\* Service.CheckLoginStatus: NewPage(accountID) pushes the stored cookies into
\* the account's context; Login.CheckLoginStatus navigates (MustNavigate
\* panics on a failure) and looks for the logged-in marker, which is on the
\* page only in an authenticated context; an error of Has is returned.
CheckStatus(t, a) ==
    /\ lpc[t] = "idle"
    /\ lacct' = [lacct EXCEPT ![t] = a]
    /\ jar' = [jar EXCEPT ![a] = IF LoadCookies(a).exists THEN LoadCookies(a).auth ELSE @]
    /\ \E r \in {"authenticated", "not_authenticated", "status_error", "panic"} :
          /\ r = "authenticated" => jar'[a]
          /\ r = "not_authenticated" => ~jar'[a]
          /\ result' = [result EXCEPT ![t] = r]
    /\ lpc' = [lpc EXCEPT ![t] = "cs_end"]
    /\ UNCHANGED <<files, sawAuth, wrote>>
    /\ UNCHANGED <<svars, xvars>>

\* Service.CheckLoginStatus returns; defer page.Close()
CheckStatusReturn(t) ==
    /\ lpc[t] = "cs_end"
    /\ lpc' = [lpc EXCEPT ![t] = "idle"]
    /\ lacct' = [lacct EXCEPT ![t] = DefaultAccount]
    /\ result' = [result EXCEPT ![t] = "none"]
    /\ UNCHANGED <<files, jar, sawAuth, wrote>>
    /\ UNCHANGED <<svars, xvars>>

InitCred ==
    /\ SessionInit
    /\ CredIdle
    /\ XIdle
    /\ \E legacy \in BOOLEAN :
          files = [p \in AllPaths |->
                      IF legacy /\ p = TmpPath
                      THEN [exists |-> TRUE, savedAs |-> DefaultAccount, auth |-> TRUE]
                      ELSE NoFile]

NextCred ==
    \/ \E t \in Threads, a \in CredAccounts : StartLogin(t, a)
    \/ \E t \in Threads : LoginNavigate(t)
    \/ \E t \in Threads : LoginUserInfo(t)
    \/ \E t \in Threads : LoginTriggerQR(t)
    \/ \E t \in Threads : LoginShowQR(t)
    \/ \E a \in CredAccounts : ChallengeCompleted(a)
    \/ \E t \in Threads : LoginWait(t)
    \/ \E t \in Threads : LoginSave(t)
    \/ \E t \in Threads : LoginReturn(t)
    \/ \E t \in Threads, a \in CredAccounts : Logout(t, a)
    \/ \E t \in Threads, a \in CredAccounts : CheckStatus(t, a)
    \/ \E t \in Threads : CheckStatusReturn(t)

SpecCred == InitCred /\ [][NextCred]_vars

\* =====================================================================
\* The title truncation of Service.PublishContent (go-runewidth)
\* =====================================================================
MaxTitleRuneWidth == 38

MaxHead == 25        \* full-width runes at the head of a generated title
MaxTail == 3         \* runes of any kind after them

\* The runes a title is made of, by their runewidth class: an ASCII letter
\* (width 1), a CJK or full-width character (width 2), a control character
\* such as "\n" (width 0).
Runes == {"ascii", "cjk", "ctl"}

\* runewidth.RuneWidth
RuneWidth(r) == CASE r = "ascii" -> 1 [] r = "cjk" -> 2 [] r = "ctl" -> 0

\* runewidth.StringWidth: the sum over the string's grapheme clusters (each of
\* these runes is a cluster of its own)
RECURSIVE StringWidth(_)
StringWidth(s) ==
    IF s = <<>> THEN 0 ELSE RuneWidth(Head(s)) + StringWidth(Tail(s))

\* The loop of runewidth.Truncate: pos is the number of runes kept so far and
\* width their width; the first cluster that would pass w ends the loop.
RECURSIVE TruncatePos(_, _, _, _)
TruncatePos(s, w, pos, width) ==
    IF pos = Len(s) THEN pos
    ELSE IF width + RuneWidth(s[pos + 1]) > w THEN pos
    ELSE TruncatePos(s, w, pos + 1, width + RuneWidth(s[pos + 1]))

\* runewidth.Truncate(s, w, tail)
Truncate(s, w, tail) ==
    IF StringWidth(s) <= w THEN s
    ELSE SubSeq(s, 1, TruncatePos(s, w - StringWidth(tail), 0, 0)) \o tail

\* (mutant) the title cut at MaxTitleRuneWidth runes instead of that width
PublishTitle_ByRuneCount(t) ==
    IF StringWidth(t) > MaxTitleRuneWidth
    THEN SubSeq(t, 1, IF Len(t) < MaxTitleRuneWidth THEN Len(t) ELSE MaxTitleRuneWidth)
    ELSE t

\* PublishContent's first step: req.Title after the automatic truncation
PublishTitle(t) ==
    IF StringWidth(t) > MaxTitleRuneWidth
    THEN Truncate(t, MaxTitleRuneWidth, <<>>)
    ELSE t

\* n full-width runes
Wide(n) == [i \in 1..n |-> "cjk"]

RECURSIVE SeqsUpTo(_)
SeqsUpTo(n) ==
    IF n = 0 THEN {<<>>}
    ELSE LET shorter == SeqsUpTo(n - 1) IN
         shorter \cup {Append(q, r) : q \in shorter, r \in Runes}

\* The titles tried: up to MaxHead full-width runes, then up to MaxTail runes
Titles == {Wide(n) \o q : n \in 0..MaxHead, q \in SeqsUpTo(MaxTail)}

InitTitle ==
    /\ SessionInit
    /\ files = [p \in AllPaths |-> NoFile]
    /\ CredIdle
    /\ PubIdle
    /\ YIdle
    /\ JarIdle
    /\ LeaseIdle
    /\ StepsIdle
    /\ ChallengeIdle
    /\ LedgerIdle
    /\ ImagesIdle
    /\ tpc = "request"
    /\ title \in Titles
    /\ submittedTitle = <<>>

\* the truncation step of PublishContent applied to the requested title
TruncateTitle ==
    /\ tpc = "request"
    /\ submittedTitle' = PublishTitle(title)
    /\ tpc' = "truncated"
    /\ UNCHANGED title
    /\ UNCHANGED <<svars, cvars, pvars, yvars, rvars, gvars, qvars, hvars, evars, ivars>>

NextTitle == TruncateTitle

SpecTitle == InitTitle /\ [][NextTitle]_vars

\* =====================================================================
\* One publish request: Service.PublishContent, NewPublisher, Publisher.Publish
\* =====================================================================
MaxAssets == 3       \* images in one request

\* the size ceiling of uploadImages: 20*1024*1024 bytes
MaxImageBytes == 20 * 1024 * 1024

\* An image of the request, as os.Stat sees its path: missing, or a file of
\* some size (small, at the ceiling, one byte over it).
Assets ==
    {[exists |-> FALSE, size |-> 0]}
        \cup {[exists |-> TRUE, size |-> n] : n \in {1024, MaxImageBytes, MaxImageBytes + 1}}

RECURSIVE BatchesUpTo(_)
BatchesUpTo(n) ==
    IF n = 0 THEN {<<>>}
    ELSE LET shorter == BatchesUpTo(n - 1) IN
         shorter \cup {Append(q, a) : q \in shorter, a \in Assets}

\* the titles of the requests: a short one and one of MaxHead full-width runes
RequestTitles == {<<"cjk", "ascii">>, Wide(MaxHead)}

InitPublish ==
    /\ SessionInit
    /\ files = [p \in AllPaths |-> NoFile]
    /\ CredIdle
    /\ XIdle

\* a request ends with this outcome
PublishEnds(r) ==
    /\ pres' = r
    /\ ppc' = "pub_end"

\* (mutant) PublishContent goes on to the page without processImages' check
PublishContent_NoAssetCheck(t, as) ==
    /\ ppc = "idle"
    /\ ptitle' = PublishTitle(t)
    /\ passets' = as
    /\ ppc' = "pub_page"
    /\ UNCHANGED <<pageOpened, navs, handed, typed, clicked, pres, presp>>
    /\ UNCHANGED <<svars, cvars, tvars, yvars, rvars, gvars, qvars, hvars, evars, ivars>>

\* Service.PublishContent up to the page lease: the title is truncated, then
\* processImages: NewImageProcessor ends the process (logrus.Fatalf) when
\* /tmp/xhs-poster cannot be created; ProcessImages returns an error at the
\* first image whose os.Stat fails, and PublishContent returns it.
PublishContent(t, as) ==
    /\ ppc = "idle"
    /\ ptitle' = PublishTitle(t)
    /\ passets' = as
    /\ \E mkdirOk \in BOOLEAN :
          IF ~mkdirOk
          THEN pres' = "exit" /\ ppc' = "pub_exited"
          ELSE IF \E i \in DOMAIN as : ~as[i].exists
          THEN PublishEnds("asset_error")
          ELSE ppc' = "pub_page" /\ UNCHANGED pres
    /\ UNCHANGED <<pageOpened, navs, handed, typed, clicked, presp>>
    /\ UNCHANGED <<svars, cvars, tvars, yvars, rvars, gvars, qvars, hvars, evars, ivars>>

\* s.getBrowser().NewPage(accountID): a page, or the panic of NewPage
PubNewPage ==
    /\ ppc = "pub_page"
    /\ \E r \in {"page", "panic"} :
          IF r = "page"
          THEN pageOpened' = TRUE /\ ppc' = "pub_nav" /\ UNCHANGED pres
          ELSE PublishEnds("panic") /\ UNCHANGED pageOpened
    /\ UNCHANGED <<ptitle, passets, navs, handed, typed, clicked, presp>>
    /\ UNCHANGED <<svars, cvars, tvars, yvars, rvars, gvars, qvars, hvars, evars, ivars>>

\* NewPublisher: pp.Navigate(publishURL); pp.MustInfo().URL; a URL with
\* "login" in it starts the login in this page
PubNavigate ==
    /\ ppc = "pub_nav"
    /\ navs' = navs + 1
    /\ \E r \in {"nav_error", "panic", "login", "surface"} :
          CASE r \in {"nav_error", "panic"} -> PublishEnds(r)
            [] r = "login" -> ppc' = "pub_login" /\ UNCHANGED pres
            [] r = "surface" -> ppc' = "pub_surface" /\ UNCHANGED pres
    /\ UNCHANGED <<ptitle, passets, pageOpened, handed, typed, clicked, presp>>
    /\ UNCHANGED <<svars, cvars, tvars, yvars, rvars, gvars, qvars, hvars, evars, ivars>>

\* loginHandler.Login(context.Background())
PubInlineLogin ==
    /\ ppc = "pub_login"
    /\ \E r \in {"ok", "login_error", "panic"} :
          IF r = "ok"
          THEN ppc' = "pub_renav" /\ UNCHANGED pres
          ELSE PublishEnds(r)
    /\ UNCHANGED <<ptitle, passets, pageOpened, navs, handed, typed, clicked, presp>>
    /\ UNCHANGED <<svars, cvars, tvars, yvars, rvars, gvars, qvars, hvars, evars, ivars>>

\* (mutant) after the login the navigation step is entered again, with its
\* check for the login page
PubRenavigate_Rechecks ==
    /\ ppc = "pub_renav"
    /\ navs' = navs + 1
    /\ \E r \in {"nav_error", "login", "surface"} :
          CASE r = "nav_error" -> PublishEnds(r)
            [] r = "login" -> ppc' = "pub_nav" /\ UNCHANGED pres
            [] r = "surface" -> ppc' = "pub_surface" /\ UNCHANGED pres
    /\ UNCHANGED <<ptitle, passets, pageOpened, handed, typed, clicked, presp>>
    /\ UNCHANGED <<svars, cvars, tvars, yvars, rvars, gvars, qvars, hvars, evars, ivars>>

\* pp.Navigate(publishURL) after the login
PubRenavigate ==
    /\ ppc = "pub_renav"
    /\ navs' = navs + 1
    /\ \E ok \in BOOLEAN :
          IF ok
          THEN ppc' = "pub_surface" /\ UNCHANGED pres
          ELSE PublishEnds("nav_error")
    /\ UNCHANGED <<ptitle, passets, pageOpened, handed, typed, clicked, presp>>
    /\ UNCHANGED <<svars, cvars, tvars, yvars, rvars, gvars, qvars, hvars, evars, ivars>>

\* the upload area is looked up by its selectors and awaited visible
PubSurface ==
    /\ ppc = "pub_surface"
    /\ \E ok \in BOOLEAN :
          IF ok
          THEN ppc' = "pub_validate" /\ UNCHANGED pres
          ELSE PublishEnds("surface_error")
    /\ UNCHANGED <<ptitle, passets, pageOpened, navs, handed, typed, clicked, presp>>
    /\ UNCHANGED <<svars, cvars, tvars, yvars, rvars, gvars, qvars, hvars, evars, ivars>>

\* the first image, in request order, that uploadImages' loop rejects (0: none)
FirstRejected(as) ==
    LET bad == {i \in DOMAIN as : ~as[i].exists \/ as[i].size > MaxImageBytes}
    IN IF bad = {} THEN 0 ELSE CHOOSE i \in bad : \A j \in bad : i <= j

\* Publisher.Publish: no image path is an error; then uploadImages' loop over
\* the paths: a missing file, or one of more than 20 MB, ends the request
PubValidate ==
    /\ ppc = "pub_validate"
    /\ IF passets = <<>>
       THEN PublishEnds("empty_error")
       ELSE IF FirstRejected(passets) = 0
       THEN ppc' = "pub_input" /\ UNCHANGED pres
       ELSE IF ~passets[FirstRejected(passets)].exists
       THEN PublishEnds("missing_error")
       ELSE PublishEnds("too_big_error")
    /\ UNCHANGED <<ptitle, passets, pageOpened, navs, handed, typed, clicked, presp>>
    /\ UNCHANGED <<svars, cvars, tvars, yvars, rvars, gvars, qvars, hvars, evars, ivars>>

\* page.Timeout(10 s).Element("input[type='file']")
PubFindInput ==
    /\ ppc = "pub_input"
    /\ \E ok \in BOOLEAN :
          IF ok
          THEN ppc' = "pub_setfiles" /\ UNCHANGED pres
          ELSE PublishEnds("input_error")
    /\ UNCHANGED <<ptitle, passets, pageOpened, navs, handed, typed, clicked, presp>>
    /\ UNCHANGED <<svars, cvars, tvars, yvars, rvars, gvars, qvars, hvars, evars, ivars>>

\* uploadInput.SetFiles(imagesPaths): all paths in one call
PubSetFiles ==
    /\ ppc = "pub_setfiles"
    /\ \E ok \in BOOLEAN :
          IF ok
          THEN handed' = Len(passets) /\ ppc' = "pub_wait" /\ UNCHANGED pres
          ELSE PublishEnds("upload_error") /\ UNCHANGED handed
    /\ UNCHANGED <<ptitle, passets, pageOpened, navs, typed, clicked, presp>>
    /\ UNCHANGED <<svars, cvars, tvars, yvars, rvars, gvars, qvars, hvars, evars, ivars>>

\* waitForUploadComplete: the count is reached, or the 90 s are over
PubWaitUpload ==
    /\ ppc = "pub_wait"
    /\ \E ok \in BOOLEAN :
          IF ok
          THEN ppc' = "pub_submit" /\ UNCHANGED pres
          ELSE PublishEnds("upload_timeout")
    /\ UNCHANGED <<ptitle, passets, pageOpened, navs, handed, typed, clicked, presp>>
    /\ UNCHANGED <<svars, cvars, tvars, yvars, rvars, gvars, qvars, hvars, evars, ivars>>

\* submitPublish: the title input is found and the title typed, the content
\* and the tags typed (inputTags' Must calls panic), the submit button clicked
PubSubmit ==
    /\ ppc = "pub_submit"
    /\ \E r \in {"title_error", "submit_error", "panic", "ok"} :
          /\ typed' = IF r = "title_error" THEN typed ELSE ptitle
          /\ clicked' = (r = "ok")
          /\ PublishEnds(r)
    /\ UNCHANGED <<ptitle, passets, pageOpened, navs, handed, presp>>
    /\ UNCHANGED <<svars, cvars, tvars, yvars, rvars, gvars, qvars, hvars, evars, ivars>>

\* PublishContent returns (nil, err) with err the outcome of Publish, nil on
\* success; the deferred page.Close() runs
PubReturn ==
    /\ ppc = "pub_end"
    /\ ppc' = "idle"
    /\ ptitle' = <<>>
    /\ passets' = <<>>
    /\ pageOpened' = FALSE
    /\ navs' = 0
    /\ handed' = 0
    /\ typed' = <<>>
    /\ clicked' = FALSE
    /\ pres' = "none"
    /\ presp' = NoResponse
    /\ UNCHANGED <<svars, cvars, tvars, yvars, rvars, gvars, qvars, hvars, evars, ivars>>

NextPublish ==
    \/ \E t \in RequestTitles, as \in BatchesUpTo(MaxAssets) : PublishContent(t, as)
    \/ PubNewPage
    \/ PubNavigate
    \/ PubInlineLogin
    \/ PubRenavigate
    \/ PubSurface
    \/ PubValidate
    \/ PubFindInput
    \/ PubSetFiles
    \/ PubWaitUpload
    \/ PubSubmit
    \/ PubReturn

SpecPublish == InitPublish /\ [][NextPublish]_vars

\* =====================================================================
\* Properties of the session manager (checked under Spec)
\* =====================================================================
\* C1: a page(accountID) call that begins after the service's connection was
\* lost ends with a Page on another, newly opened connection (the only
\* other end being the process exit of a fatal connect): it does not end in any
\* other failure, and never with a Page on the connection that was lost.
C1_NextPageAfterLoss ==
    \A t \in Threads :
        (lostAtStart[t] # 0 /\ pc[t] \in {"gotPage", "panicked"})
            => (pc[t] = "gotPage" /\ page[t] # lostAtStart[t])

\* C2: on one connection each account id has at most one incognito context
\* ever created, and every call that has obtained the account's context holds
\* that one, the context cached in the map.
C2_OneContextPerAccount ==
    \A c \in DOMAIN conns : \A a \in SessionAccounts \ {DefaultAccount} :
        /\ created[c][a] <= 1
        /\ \A t \in Threads :
              (ctx[t].conn = c /\ acct[t] = a)
                  => (ctx[t].n = 1 /\ ctx[t] = CachedCtx(c, a))

\* C2 witness: a call that missed the account under the read lock now holds the
\* write lock and finds the context another call created in between, while
\* that other call holds the context.
C2_Witness ==
    \E t, u \in Threads :
        /\ t # u /\ acct[t] = acct[u] /\ handle[t] = handle[u]
        /\ pc[t] = "ctx_wcheck" /\ Exists(handle[t], acct[t])
        /\ ctx[u] = CachedCtx(handle[t], acct[t])

\* C5: a call that begins after the lost connection's engine has been
\* restarted, with the engine reachable from then on, does not fault when it
\* leases its Page.
C5_RetryAfterRestartGetsPage ==
    \A t \in Threads : afterHeal[t] => pc[t] # "np_recover"

C7_OneRecoveryUnderLock ==
    /\ Cardinality(restarting) <= 1
    /\ \A t \in restarting : browserMux = t

\* C8: a request that getBrowser answers while a recovery is running is not
\* handed the connection under recovery: what it is handed is a live,
\* fully established connection.
C8_NoHandleDuringRecovery ==
    [][\A t \in Threads :
          (pc[t] = "idle" /\ pc'[t] = "np_ctx" /\ restarting # {})
              => conns'[handle'[t]].state = "Live"
      ]_vars

\* C9: at most one connection to the engine is open at any time.
C9_OneConnection ==
    Cardinality({i \in DOMAIN conns : conns[i].state = "Live"}) <= 1

\* C10: a call that begins after the engine was restarted is given a context
\* of the current connection generation, never one created on a connection
\* that predates the restart.
C10_ContextOfCurrentGeneration ==
    \A t \in Threads :
        (afterHeal[t] /\ pc[t] = "np_page") => ~conns[ctx[t].conn].restarted

\* C11: connect() (NewBrowser) restarts the engine once after a failed or
\* timed-out first attempt and then makes its second attempt; when the
\* restart fails the process exits, and the second attempt ends either with
\* the process exited or with connect() returning an established connection:
\* there is no third attempt and no other way out.
C11_TwoAttemptsThenExit ==
    [][\A t \in Threads :
          /\ (pc[t] = "nb_restart" /\ pc'[t] # pc[t])
                => (pc'[t] = "nb_restarting" /\ restarts[t] = 0 /\ restarts'[t] = 1)
          /\ (pc[t] = "nb_restarting" /\ pc'[t] # pc[t]) => pc'[t] = "nb_retry"
          /\ (pc[t] = "nb_restarting" /\ restarting' # restarting /\ pc'[t] = pc[t])
                => process' = "exited"
          /\ (pc[t] = "nb_retry" /\ pc'[t] # pc[t])
                => (pc'[t] = "np_ctx" /\ handle'[t] \in DOMAIN conns'
                    /\ browser' = handle'[t])
          /\ (pc[t] = "nb_retry" /\ pc'[t] = pc[t] /\ process' # process)
                => process' = "exited"
      ]_vars

\* C12: the process exits only out of connect(), when the restart or the
\* second attempt after a failed first attempt fails; no operation of the
\* service is left by a panic.
C12_ExitOnlyFromConnect ==
    [][/\ (process = "running" /\ process' = "exited")
            => \E t \in Threads : pc[t] \in {"nb_restarting", "nb_retry"}
       /\ \A t \in Threads : pc'[t] \notin {"panicked", "nb_panicked"}
      ]_vars

\* =====================================================================
\* Properties of the cookie store and the login flow (checked under SpecCred)
\* =====================================================================
\* C3: what load(B) returns was saved under B: a credential saved under
\* another account id A is never what load(B) returns, so no save(A, C)
\* changes what load(B) returns.
C3_NoCrossAccountCredential ==
    \A b \in CredAccounts :
        LoadCookies(b).exists => LoadCookies(b).savedAs = b

\* C4: a Login that wrote the cookie file had seen the logged-in marker
\* before, and a Login that ended in a timeout, a cancellation or "QR code not
\* found" wrote nothing.
C4_SaveOnlyAfterAuthenticated ==
    \A t \in Threads :
        /\ wrote[t] => sawAuth[t]
        /\ (lpc[t] = "lg_end" /\ result[t] \in {"timeout", "cancelled", "qr_not_found"})
              => ~wrote[t]

\* C4 witness: one Login has timed out while the account's file exists,
\* another has seen the marker and written its file.
C4_Witness ==
    \E t, u \in Threads :
        /\ lpc[t] = "lg_end" /\ result[t] = "timeout" /\ LoadCookies(lacct[t]).exists
        /\ lpc[u] = "lg_end" /\ result[u] = "ok" /\ wrote[u] /\ sawAuth[u]

\* C15: checkStatus of an account that has no stored credential does not
\* return authenticated; a login that returns success leaves a credential
\* file stored for exactly its account id; and checkStatus of an account
\* whose context is logged in does not return not-authenticated.
C15_StatusFollowsCredential ==
    [][\A t \in Threads :
          /\ (lpc[t] = "idle" /\ lpc'[t] = "cs_end" /\ ~LoadCookies(lacct'[t]).exists)
                => result'[t] # "authenticated"
          /\ (lpc[t] = "lg_save" /\ lpc'[t] = "lg_end" /\ result'[t] = "ok")
                => /\ files'[getCookiesFilePath(lacct[t])].exists
                   /\ files'[getCookiesFilePath(lacct[t])].savedAs = lacct[t]
          /\ (lpc[t] = "idle" /\ lpc'[t] = "cs_end" /\ jar[lacct'[t]])
                => result'[t] # "not_authenticated"
      ]_vars

\* C23: a logout removes the stored credential of its account and nothing
\* else: the connection, the context map and the pages are as before, a
\* login in progress keeps its position and its context's session, and what
\* load returns for every other account is unchanged.
C23_LogoutOnlyRemovesOwnCredential ==
    [][(\E p \in AllPaths : files[p].exists /\ ~files'[p].exists)
          => /\ svars' = svars
             /\ <<jar, lpc, lacct, sawAuth, wrote, result>>' = <<jar, lpc, lacct, sawAuth, wrote, result>>
             /\ \E a \in CredAccounts :
                   /\ LoadCookies(a).exists
                   /\ files' = [files EXCEPT ![getCookiesFilePath(a)] = NoFile]
                   /\ \A b \in CredAccounts \ {a} : LoadCookies(b)' = LoadCookies(b)
      ]_vars

C13_MissingAssetRejectedBeforePage ==
    (ppc = "pub_end" /\ \E i \in DOMAIN passets : ~passets[i].exists)
        => (pres = "asset_error" /\ handed = 0 /\ ~pageOpened /\ navs = 0)

\* C13 witness: the batch [valid, valid, missing] has been rejected.
C13_Witness ==
    /\ ppc = "pub_end" /\ pres = "asset_error"
    /\ Len(passets) = 3
    /\ passets[1].exists /\ passets[2].exists /\ ~passets[3].exists
    /\ ~pageOpened /\ handed = 0

\* C14: a request with an image of more than 20 MB (all images existing)
\* hands no image to the file input, and when it ends in the size error the
\* page has not navigated to the publish page.
C14_OversizeRejectedBeforeNetwork ==
    (/\ ppc = "pub_end"
     /\ \A i \in DOMAIN passets : passets[i].exists
     /\ \E i \in DOMAIN passets : passets[i].size > MaxImageBytes)
        => (handed = 0 /\ (pres = "too_big_error" => navs = 0))

\* C16: a request that ended in success returned a response that carries the
\* title that was typed (of width at most 38), the number of images handed
\* to the file input, and a final status.
C16_SuccessReturnsResult ==
    (ppc = "pub_end" /\ pres = "ok")
        => /\ ~presp.isNil
           /\ presp.title = typed
           /\ StringWidth(presp.title) <= MaxTitleRuneWidth
           /\ presp.images = handed
           /\ presp.status # "none"

\* C26: the publish page is navigated to at most twice; the second
\* navigation is the one step that follows a successful inline login, on the
\* page the request already has; a login that fails ends the request with
\* its error, nothing handed to the file input and nothing clicked.
C26_LoginThenOneRenavigation ==
    [][/\ navs' <= 2
       /\ (navs = 1 /\ navs' = 2) => (ppc = "pub_renav" /\ pageOpened' = pageOpened)
       /\ (ppc = "pub_login" /\ ppc' # ppc)
             => \/ ppc' = "pub_renav" /\ navs' = navs
                \/ /\ ppc' = "pub_end"
                   /\ pres' \in {"login_error", "panic"}
                   /\ handed' = 0
                   /\ ~clicked'
                   /\ navs' = 1
       /\ (ppc = "pub_renav" /\ ppc' # ppc)
             => /\ navs = 1 /\ navs' = 2
                /\ ppc' \in {"pub_surface", "pub_end"}
      ]_vars

\* a publish that was sent to the login, navigated again and succeeded
C26_Witness ==
    /\ ppc = "pub_end"
    /\ pres = "ok"
    /\ navs = 2
    /\ handed = MaxAssets
    /\ clicked

\* =====================================================================
\* The polling loops: waitAndDisplayQRCode, waitForLoginSuccess,
\* waitForUploadComplete
\* =====================================================================
QRProbes == 30
QRDebugEvery == 10
LoginTimeout == 300
LoginCheckInterval == 2
maxWaitTime == 90
checkInterval == 1

InitPoll ==
    /\ SessionInit
    /\ files = [p \in AllPaths |-> NoFile]
    /\ CredIdle
    /\ XIdle

\* the context the loop's page calls and its select see: the caller's, except
\* in the login that NewPublisher runs with context.Background()
ctxDone == kcancel /\ ~kinline

PollEnds(r) ==
    /\ kloop' = "done"
    /\ kres' = r
    /\ UNCHANGED <<kinline, ki, kcancel, klate>>

\* time.Sleep / time.After of one interval runs to its end
PollSleeps ==
    /\ ki' = ki + 1
    /\ klate' = IF kcancel THEN klate + 1 ELSE klate
    /\ UNCHANGED <<kloop, kinline, kcancel, kres>>

\* Login.Login reaches waitAndDisplayQRCode, from Service.Login or from
\* NewPublisher's inline login
StartQRWait(inline) ==
    /\ kloop = "none"
    /\ kloop' = "qr"
    /\ kinline' = inline
    /\ UNCHANGED <<ki, kcancel, klate, kres>>
    /\ UNCHANGED <<svars, cvars, pvars, tvars, dvars, rvars, gvars, qvars, hvars, evars, ivars>>

\* Publisher.uploadImages reaches waitForUploadComplete
StartUploadWait ==
    /\ kloop = "none"
    /\ kloop' = "upload"
    /\ UNCHANGED <<kinline, ki, kcancel, klate, kres>>
    /\ UNCHANGED <<svars, cvars, pvars, tvars, dvars, rvars, gvars, qvars, hvars, evars, ivars>>

\* the caller cancels its context, or its deadline passes
CancelCtx ==
    /\ kloop \in {"qr", "login", "upload"}
    /\ ~kcancel
    /\ kcancel' = TRUE
    /\ UNCHANGED <<kloop, kinline, ki, klate, kres>>
    /\ UNCHANGED <<svars, cvars, pvars, tvars, dvars, rvars, gvars, qvars, hvars, evars, ivars>>

\* one pass of the probe loop of waitAndDisplayQRCode: with the context done
\* every page call fails, so no element is found, and page.MustInfo() of the
\* debug output (i > 0 && i%10 == 0) panics; the loop itself never looks at
\* ctx and sleeps with time.Sleep
QRProbe ==
    /\ kloop = "qr"
    /\ ki < QRProbes
    /\ \/ /\ ~ctxDone                       \* a visible QR element: break
          /\ kloop' = "login"
          /\ ki' = 0
          /\ klate' = 0
          /\ UNCHANGED <<kinline, kcancel, kres>>
       \/ /\ ctxDone /\ ki > 0 /\ ki % QRDebugEvery = 0
          /\ PollEnds("panic")
       \/ /\ ~(ctxDone /\ ki > 0 /\ ki % QRDebugEvery = 0)
          /\ PollSleeps
    /\ UNCHANGED <<svars, cvars, pvars, tvars, dvars, rvars, gvars, qvars, hvars, evars, ivars>>

\* the probes are used up: "未找到二维码元素"
QRGiveUp ==
    /\ kloop = "qr"
    /\ ki = QRProbes
    /\ PollEnds("qr_not_found")
    /\ UNCHANGED <<svars, cvars, pvars, tvars, dvars, rvars, gvars, qvars, hvars, evars, ivars>>

\* (mutant) the wait between two polls is time.Sleep: the context is not read
LoginPoll_SleepsThroughCancel ==
    /\ kloop = "login"
    /\ ki * LoginCheckInterval < LoginTimeout
    /\ \/ /\ ~ctxDone
          /\ PollEnds("ok")
       \/ PollSleeps
    /\ UNCHANGED <<svars, cvars, pvars, tvars, dvars, rvars, gvars, qvars, hvars, evars, ivars>>

\* one pass of the loop of waitForLoginSuccess: the success markers, then
\* select { <-ctx.Done(): return ctx.Err(); <-time.After(checkInterval) }
LoginPoll ==
    /\ kloop = "login"
    /\ ki * LoginCheckInterval < LoginTimeout
    /\ \/ /\ ~ctxDone
          /\ PollEnds("ok")
       \/ /\ ctxDone
          /\ PollEnds("ctx_err")
       \/ /\ ~ctxDone
          /\ PollSleeps
    /\ UNCHANGED <<svars, cvars, pvars, tvars, dvars, rvars, gvars, qvars, hvars, evars, ivars>>

\* the deadline of waitForLoginSuccess passed: "登录超时"
LoginWaitTimeout ==
    /\ kloop = "login"
    /\ ki * LoginCheckInterval >= LoginTimeout
    /\ PollEnds("login_timeout")
    /\ UNCHANGED <<svars, cvars, pvars, tvars, dvars, rvars, gvars, qvars, hvars, evars, ivars>>

\* one pass of the loop of waitForUploadComplete on the page of
\* p.page.Context(ctx): with the context done page.Elements fails and
\* maxFound stays 0; the loop has no ctx and sleeps with time.Sleep
UploadPoll ==
    /\ kloop = "upload"
    /\ ki * checkInterval < maxWaitTime
    /\ \/ /\ ~ctxDone
          /\ PollEnds("ok")
       \/ PollSleeps
    /\ UNCHANGED <<svars, cvars, pvars, tvars, dvars, rvars, gvars, qvars, hvars, evars, ivars>>

\* maxWaitTime passed: "上传超时"
UploadWaitTimeout ==
    /\ kloop = "upload"
    /\ ki * checkInterval >= maxWaitTime
    /\ PollEnds("upload_timeout")
    /\ UNCHANGED <<svars, cvars, pvars, tvars, dvars, rvars, gvars, qvars, hvars, evars, ivars>>

NextPoll ==
    \/ \E inline \in BOOLEAN : StartQRWait(inline)
    \/ StartUploadWait
    \/ CancelCtx
    \/ QRProbe
    \/ QRGiveUp
    \/ LoginPoll
    \/ LoginWaitTimeout
    \/ UploadPoll
    \/ UploadWaitTimeout

SpecPoll == InitPoll /\ [][NextPoll]_vars

\* the loops are loops of the request's goroutine: they go on as long as
\* they can
SpecPollFair ==
    /\ SpecPoll
    /\ WF_vars(QRProbe) /\ WF_vars(QRGiveUp)
    /\ WF_vars(LoginPoll) /\ WF_vars(LoginWaitTimeout)
    /\ WF_vars(UploadPoll) /\ WF_vars(UploadWaitTimeout)

\* C28: the login-completion wait is left in one of three ways only: with
\* success (the context not done), with the context's error (the context
\* done), or with the timeout error once 300 s of waiting are over; with the
\* context done and the 300 s not yet over it is left at once; every wait
\* between polls is one interval of 2 s; and the wait always ends.
C28_LoginWaitOutcomes ==
    /\ [][(kloop = "login" /\ kloop' # "login")
            => /\ kloop' = "done"
               /\ \/ kres' = "ok" /\ ~ctxDone
                  \/ kres' = "ctx_err" /\ ctxDone
                  \/ kres' = "login_timeout" /\ ki * LoginCheckInterval >= LoginTimeout
         ]_vars
    /\ [][(/\ kloop = "login" /\ ctxDone
           /\ ki * LoginCheckInterval < LoginTimeout
           /\ kvars' # kvars) => kres' = "ctx_err"]_vars
    /\ [][(kloop = "login" /\ ki' # ki) => ki' = ki + 1]_vars
    /\ [](kloop = "login" => ki * LoginCheckInterval <= LoginTimeout)
    /\ ((kloop = "login") ~> (kloop # "login"))

\* the wait was left with the context's error after some polls
C28_Witness ==
    /\ kloop = "done"
    /\ kres = "ctx_err"
    /\ kcancel /\ ~kinline
    /\ ki > 0

\* C18: once the caller's context is done, no polling loop sleeps more than
\* one further interval: it exits within one polling interval.
C18_CancelledLoopExitsWithinInterval == klate <= 1

\* =====================================================================
\* The cookie file under concurrent SaveCookies and LoadCookies
\* =====================================================================
\* the chunks in which the marshalled cookies reach the file
CredChunks == 2

\* the marshalled cookies of credential c
Marshal(c) == [i \in 1..CredChunks |-> c]

\* the credential saved before the model starts
OldCred == NThreads + 1

InitStore ==
    /\ SessionInit
    /\ files = [p \in AllPaths |-> NoFile]
    /\ CredIdle
    /\ PubIdle
    /\ TitleIdle
    /\ PollIdle
    /\ JarIdle
    /\ LeaseIdle
    /\ StepsIdle
    /\ ChallengeIdle
    /\ LedgerIdle
    /\ ImagesIdle
    /\ dpc = [t \in Threads |-> "idle"]
    /\ dcred = [t \in Threads |-> 0]
    /\ dpos = [t \in Threads |-> 0]
    /\ dgot = [t \in Threads |-> NoLoad]
    /\ \E d \in BOOLEAN, f \in BOOLEAN :
          /\ f => d
          /\ ddir = d
          /\ dfile = IF f THEN [exists |-> TRUE, data |-> Marshal(OldCred)]
                          ELSE [exists |-> FALSE, data |-> <<>>]

\* write(2) of chunk v at offset pos; a gap left by another writer's
\* truncation reads as zero bytes
WriteAt(data, pos, v) ==
    LET n == IF Len(data) >= pos THEN Len(data) ELSE pos
    IN  [i \in 1..n |-> IF i = pos THEN v ELSE IF i <= Len(data) THEN data[i] ELSE 0]

\* json.Unmarshal of what os.ReadFile returned: a truncated text is an error
Unmarshal(data) ==
    IF Len(data) < CredChunks
    THEN [kind |-> "unparsable", data |-> <<>>]
    ELSE [kind |-> "cookies", data |-> data]

\* SaveCookies up to os.MkdirAll(dir, 0755): an error is returned
SaveMkdir(t, c) ==
    /\ dpc[t] = "idle"
    /\ dcred' = [dcred EXCEPT ![t] = c]
    /\ \/ /\ ddir' = TRUE
          /\ dpc' = [dpc EXCEPT ![t] = "sv_open"]
       \/ /\ ~ddir
          /\ ddir' = ddir
          /\ dpc' = [dpc EXCEPT ![t] = "sv_failed"]
    /\ UNCHANGED <<dfile, dpos, dgot>>
    /\ UNCHANGED <<svars, cvars, pvars, tvars, kvars, rvars, gvars, qvars, hvars, evars, ivars>>

\* os.WriteFile opens the file itself with O_WRONLY|O_CREATE|O_TRUNC
SaveOpen(t) ==
    /\ dpc[t] = "sv_open"
    /\ dfile' = [exists |-> TRUE, data |-> <<>>]
    /\ dpos' = [dpos EXCEPT ![t] = 1]
    /\ dpc' = [dpc EXCEPT ![t] = "sv_write"]
    /\ UNCHANGED <<ddir, dcred, dgot>>
    /\ UNCHANGED <<svars, cvars, pvars, tvars, kvars, rvars, gvars, qvars, hvars, evars, ivars>>

\* os.WriteFile writes the data to the open file, then closes it
SaveWrite(t) ==
    /\ dpc[t] = "sv_write"
    /\ dfile' = [dfile EXCEPT !.data = WriteAt(@, dpos[t], dcred[t])]
    /\ dpos' = [dpos EXCEPT ![t] = @ + 1]
    /\ dpc' = [dpc EXCEPT ![t] = IF dpos[t] = CredChunks THEN "sv_end" ELSE "sv_write"]
    /\ UNCHANGED <<ddir, dcred, dgot>>
    /\ UNCHANGED <<svars, cvars, pvars, tvars, kvars, rvars, gvars, qvars, hvars, evars, ivars>>

\* SaveCookies returns
SaveReturn(t) ==
    /\ dpc[t] \in {"sv_end", "sv_failed"}
    /\ dpc' = [dpc EXCEPT ![t] = "idle"]
    /\ dcred' = [dcred EXCEPT ![t] = 0]
    /\ dpos' = [dpos EXCEPT ![t] = 0]
    /\ UNCHANGED <<ddir, dfile, dgot>>
    /\ UNCHANGED <<svars, cvars, pvars, tvars, kvars, rvars, gvars, qvars, hvars, evars, ivars>>

\* LoadCookies: os.ReadFile (no file: nil, nil), then json.Unmarshal
LoadCookiesFile(t) ==
    /\ dpc[t] = "idle"
    /\ dgot' = [dgot EXCEPT ![t] = IF dfile.exists
                                    THEN Unmarshal(dfile.data)
                                    ELSE [kind |-> "nil", data |-> <<>>]]
    /\ UNCHANGED <<ddir, dfile, dpc, dcred, dpos>>
    /\ UNCHANGED <<svars, cvars, pvars, tvars, kvars, rvars, gvars, qvars, hvars, evars, ivars>>

NextStore ==
    \/ \E t \in Threads : SaveMkdir(t, t)
    \/ \E t \in Threads : SaveOpen(t)
    \/ \E t \in Threads : SaveWrite(t)
    \/ \E t \in Threads : SaveReturn(t)
    \/ \E t \in Threads : LoadCookiesFile(t)

SpecStore == InitStore /\ [][NextStore]_vars

\* C20: a load returns no credential or a complete credential that some save
\* wrote, never a partial or unparsable one; and the file is only ever in a
\* directory that exists (save creates the missing directories).
C20_LoadSeesWholeCredential ==
    /\ \A t \in Threads :
          \/ dgot[t].kind \in {"none", "nil"}
          \/ /\ dgot[t].kind = "cookies"
             /\ \E c \in Threads \cup {OldCred} : dgot[t].data = Marshal(c)
    /\ dfile.exists => ddir

\* =====================================================================
\* The cookie file store: SaveCookies, LoadCookies, ClearCookieFile, and
\* the JSON text in the file
\* =====================================================================
\* ---- encoding/json on []*proto.NetworkCookie, as a token text
Tok(k, v) == [k |-> k, v |-> v]

DigitChars == <<"0", "1", "2", "3", "4", "5", "6", "7", "8", "9">>

\* strconv's decimal text of a non-negative integer
RECURSIVE FormatNat(_)
FormatNat(n) ==
    IF n < 10 THEN <<DigitChars[n + 1]>>
    ELSE FormatNat(n \div 10) \o <<DigitChars[(n % 10) + 1]>>

FormatNum(n) == IF n < 0 THEN <<"-">> \o FormatNat(0 - n) ELSE FormatNat(n)

DigitValue(ch) == (CHOOSE d \in 1..10 : DigitChars[d] = ch) - 1

RECURSIVE ParseNat(_, _)
ParseNat(chars, acc) ==
    IF chars = <<>> THEN acc
    ELSE ParseNat(Tail(chars), acc * 10 + DigitValue(Head(chars)))

ParseNum(chars) ==
    IF Head(chars) = "-" THEN 0 - ParseNat(Tail(chars), 0) ELSE ParseNat(chars, 0)

\* the encoder's string escapes: the quote and the backslash get a
\* backslash, "<" is written as \u003c (HTML escaping is on by default)
RECURSIVE EscapeString(_)
EscapeString(s) ==
    IF s = <<>> THEN <<>>
    ELSE (CASE Head(s) = "\"" -> <<"\\", "\"">>
            [] Head(s) = "\\" -> <<"\\", "\\">>
            [] Head(s) = "<" -> <<"\\", "u", "0", "0", "3", "c">>
            [] OTHER -> <<Head(s)>>) \o EscapeString(Tail(s))

\* the decoder's unquote
RECURSIVE UnescapeString(_)
UnescapeString(e) ==
    IF e = <<>> THEN <<>>
    ELSE IF Head(e) # "\\" THEN <<Head(e)>> \o UnescapeString(Tail(e))
    ELSE IF e[2] = "u"
         THEN (IF SubSeq(e, 3, 6) = <<"0", "0", "3", "c">> THEN <<"<">> ELSE <<"?">>)
                 \o UnescapeString(SubSeq(e, 7, Len(e)))
         ELSE <<e[2]>> \o UnescapeString(SubSeq(e, 3, Len(e)))

\* the zero value of proto.NetworkCookie
ZeroCookie == [name |-> <<>>, value |-> <<>>, expires |-> 0, httpOnly |-> FALSE, sameSite |-> <<>>]

\* json.Marshal of one cookie: sameSite has omitempty
MarshalCookie(c) ==
    <<Tok("punct", <<"{">>),
      Tok("key", <<"name">>), Tok("str", EscapeString(c.name)),
      Tok("key", <<"value">>), Tok("str", EscapeString(c.value)),
      Tok("key", <<"expires">>), Tok("num", FormatNum(c.expires)),
      Tok("key", <<"httpOnly">>), Tok("bool", <<IF c.httpOnly THEN "true" ELSE "false">>)>>
    \o (IF c.sameSite = <<>> THEN <<>>
        ELSE <<Tok("key", <<"sameSite">>), Tok("str", EscapeString(c.sameSite))>>)
    \o <<Tok("punct", <<"}">>)>>

RECURSIVE MarshalList(_)
MarshalList(cs) ==
    IF cs = <<>> THEN <<>> ELSE MarshalCookie(Head(cs)) \o MarshalList(Tail(cs))

\* json.Marshal(cookies): a nil slice is null
MarshalCookies(cred) ==
    IF cred.isNil THEN <<Tok("null", <<>>)>>
    ELSE <<Tok("punct", <<"[">>)>> \o MarshalList(cred.cookies) \o <<Tok("punct", <<"]">>)>>

\* the decoder on the fields of one object, from token i; a key that is
\* absent leaves the zero value
RECURSIVE ParseFields(_, _, _)
ParseFields(text, i, c) ==
    IF text[i].k = "punct" THEN [cookie |-> c, next |-> i + 1]
    ELSE LET key == text[i].v[1]
             val == text[i + 1]
         IN  ParseFields(text, i + 2,
                CASE key = "name" -> [c EXCEPT !.name = UnescapeString(val.v)]
                  [] key = "value" -> [c EXCEPT !.value = UnescapeString(val.v)]
                  [] key = "expires" -> [c EXCEPT !.expires = ParseNum(val.v)]
                  [] key = "httpOnly" -> [c EXCEPT !.httpOnly = (val.v = <<"true">>)]
                  [] key = "sameSite" -> [c EXCEPT !.sameSite = UnescapeString(val.v)]
                  [] OTHER -> c)

RECURSIVE ParseList(_, _, _)
ParseList(text, i, acc) ==
    IF text[i] = Tok("punct", <<"]">>) THEN acc
    ELSE LET r == ParseFields(text, i + 1, ZeroCookie)
         IN  ParseList(text, r.next, Append(acc, r.cookie))

\* json.Unmarshal(data, &cookies) on a text that SaveCookies wrote
UnmarshalCookies(text) ==
    IF text[1].k = "null" THEN [isNil |-> TRUE, cookies |-> <<>>]
    ELSE [isNil |-> FALSE, cookies |-> ParseList(text, 2, <<>>)]

\* ---- the credentials the model saves
CookieValues == {<<>>, <<"a">>, <<"\"">>, <<"\\">>, <<"<">>, <<"a", "<">>}

Cookies ==
    [name : {<<"a">>}, value : CookieValues, expires : {0 - 1, 0, 1735689600},
     httpOnly : BOOLEAN, sameSite : {<<>>, <<"L", "a", "x">>}]

SecondCookie == [ZeroCookie EXCEPT !.name = <<"a", "a">>]

Creds ==
    {NilCred, [isNil |-> FALSE, cookies |-> <<>>]}
        \cup {[isNil |-> FALSE, cookies |-> <<c>>] : c \in Cookies}
        \cup {[isNil |-> FALSE, cookies |-> <<c, SecondCookie>>] : c \in Cookies}

\* the cookies of another context
OtherCred == [isNil |-> FALSE, cookies |-> <<[ZeroCookie EXCEPT !.name = <<"b">>]>>]

\* getCookiesFilePath on the files of this model
filePath(accountID) ==
    IF accountID = DefaultAccount
    THEN IF rstore[TmpPath].exists THEN TmpPath ELSE Join(<<".", "cookies.json">>)
    ELSE Join(<<".", "cookies">> \o WithJson(accountID))

InitJar ==
    /\ SessionInit
    /\ files = [p \in AllPaths |-> NoFile]
    /\ CredIdle
    /\ PubIdle
    /\ TitleIdle
    /\ YIdle
    /\ LeaseIdle
    /\ StepsIdle
    /\ ChallengeIdle
    /\ LedgerIdle
    /\ ImagesIdle
    /\ rknown = [a \in StoreAccounts |-> [state |-> "unknown", cred |-> NilCred]]
    /\ rgot = NoGot
    /\ rclr = "none"
    /\ rC \in Creds
    /\ \E legacy \in BOOLEAN :
          rstore = [p \in StorePaths |->
                       IF legacy /\ p = TmpPath
                       THEN [exists |-> TRUE, text |-> MarshalCookies(OtherCred)]
                       ELSE NoText]

\* CookieManager.SaveCookies of NewCookieManagerForAccount(a): the cookies c
\* of the context are marshalled and written to the account's file
StoreSave(a, c) ==
    /\ rstore' = [rstore EXCEPT ![filePath(a)] = [exists |-> TRUE, text |-> MarshalCookies(c)]]
    /\ rknown' = [rknown EXCEPT ![a] = [state |-> "saved", cred |-> c]]
    /\ rgot' = NoGot
    /\ rclr' = "none"
    /\ UNCHANGED rC
    /\ UNCHANGED <<svars, cvars, pvars, tvars, yvars, gvars, qvars, hvars, evars, ivars>>

\* CookieManager.ClearCookieFile: os.Remove; a file that is not there is not
\* an error
StoreClear(a) ==
    /\ rstore' = [rstore EXCEPT ![filePath(a)] = NoText]
    /\ rknown' = [rknown EXCEPT ![a] = [state |-> "cleared", cred |-> NilCred]]
    /\ rclr' = "ok"
    /\ rgot' = NoGot
    /\ UNCHANGED rC
    /\ UNCHANGED <<svars, cvars, pvars, tvars, yvars, gvars, qvars, hvars, evars, ivars>>

\* CookieManager.LoadCookies: no file is (nil, nil); else the unmarshalled
\* cookies
StoreLoad(a) ==
    /\ rgot' = IF rstore[filePath(a)].exists
               THEN [kind |-> "cookies", cred |-> UnmarshalCookies(rstore[filePath(a)].text), of |-> a]
               ELSE [kind |-> "nil", cred |-> NilCred, of |-> a]
    /\ rclr' = "none"
    /\ UNCHANGED <<rstore, rknown, rC>>
    /\ UNCHANGED <<svars, cvars, pvars, tvars, yvars, gvars, qvars, hvars, evars, ivars>>

NextJar ==
    \/ \E a \in StoreAccounts, c \in {rC, OtherCred} : StoreSave(a, c)
    \/ \E a \in StoreAccounts : StoreClear(a)
    \/ \E a \in StoreAccounts : StoreLoad(a)

SpecJar == InitJar /\ [][NextJar]_vars

\* C21: a load made for an account whose last store operation was a save of
\* C returns the cookies C, equal in every field.
C21_SaveThenLoadRoundTrip ==
    (rgot.kind # "none" /\ rknown[rgot.of].state = "saved")
        => (rgot.kind = "cookies" /\ rgot.cred = rknown[rgot.of].cred)

\* C22: a load for an account that has no stored credential (never saved and
\* no legacy file, or cleared since) returns none, and a clear never returns
\* an error.
C22_NoneAfterClearOrNeverSaved ==
    /\ rclr # "error"
    /\ (rgot.kind # "none" /\ rknown[rgot.of].state = "cleared") => rgot.kind = "nil"
    /\ (/\ rgot.kind # "none"
        /\ rknown[rgot.of].state = "unknown"
        /\ ~(rgot.of = DefaultAccount /\ rstore[TmpPath].exists))
          => rgot.kind = "nil"

\* =====================================================================
\* The page of a flow invocation: page := s.getBrowser().NewPage(accountID);
\* defer page.Close()
\* =====================================================================
Flows == {"checkStatus", "login", "publish"}

InitLease ==
    /\ SessionInit
    /\ files = [p \in AllPaths |-> NoFile]
    /\ CredIdle
    /\ XIdle

\* the invocation is over: its locals are gone
FlowOver(t, r) ==
    /\ gpc' = [gpc EXCEPT ![t] = "idle"]
    /\ gkind' = [gkind EXCEPT ![t] = "none"]
    /\ gacct' = [gacct EXCEPT ![t] = DefaultAccount]
    /\ gpage' = [gpage EXCEPT ![t] = 0]
    /\ gleases' = [gleases EXCEPT ![t] = 0]
    /\ glast' = [glast EXCEPT ![t] = r]

\* CheckLoginStatus, Login or PublishContent is entered; PublishContent runs
\* processImages first and returns its error before any page
FlowEnter(t, k, a) ==
    /\ gpc[t] = "idle"
    /\ \/ /\ gpc' = [gpc EXCEPT ![t] = "leasing"]
          /\ gkind' = [gkind EXCEPT ![t] = k]
          /\ gacct' = [gacct EXCEPT ![t] = a]
          /\ UNCHANGED <<gpage, gleases, glast>>
       \/ /\ k = "publish"
          /\ FlowOver(t, "error")
    /\ UNCHANGED <<gopen, gctx>>
    /\ UNCHANGED <<svars, cvars, pvars, tvars, yvars, rvars, qvars, hvars, evars, ivars>>

\* Browser.NewPage returns: MustPage made a page in the account's context
\* (the context is made on the account's first page); the deferred Close is
\* registered with the assignment of page
LeasePage(t) ==
    /\ gpc[t] = "leasing"
    /\ \E i \in PageIds :
          /\ ~gopen[i].open
          /\ gopen' = [gopen EXCEPT ![i] = [open |-> TRUE, by |-> t, ctx |-> gacct[t], users |-> {}]]
          /\ gpage' = [gpage EXCEPT ![t] = i]
    /\ gctx' = [gctx EXCEPT ![gacct[t]] = TRUE]
    /\ gleases' = [gleases EXCEPT ![t] = @ + 1]
    /\ gpc' = [gpc EXCEPT ![t] = "flow"]
    /\ UNCHANGED <<gkind, gacct, glast>>
    /\ UNCHANGED <<svars, cvars, pvars, tvars, yvars, rvars, qvars, hvars, evars, ivars>>

\* Browser.NewPage panics (MustIncognito or MustPage failed): no page was
\* made and the panic leaves the method
LeaseFails(t) ==
    /\ gpc[t] = "leasing"
    /\ FlowOver(t, "panic")
    /\ UNCHANGED <<gopen, gctx>>
    /\ UNCHANGED <<svars, cvars, pvars, tvars, yvars, rvars, qvars, hvars, evars, ivars>>

\* the flow (NewLogin(page), NewPublisher(page)) drives the page it was given
FlowUse(t) ==
    /\ gpc[t] = "flow"
    /\ t \notin gopen[gpage[t]].users
    /\ gopen' = [gopen EXCEPT ![gpage[t]].users = @ \cup {t}]
    /\ UNCHANGED <<gpc, gkind, gacct, gpage, gleases, gctx, glast>>
    /\ UNCHANGED <<svars, cvars, pvars, tvars, yvars, rvars, qvars, hvars, evars, ivars>>

\* (mutant) the page is closed on a normal return only, not when a panic
\* leaves the method
FlowReturn_CloseNotDeferred(t, r) ==
    /\ gpc[t] = "flow"
    /\ gopen' = IF r = "panic" THEN gopen ELSE [gopen EXCEPT ![gpage[t]] = NoPage]
    /\ FlowOver(t, r)
    /\ UNCHANGED gctx
    /\ UNCHANGED <<svars, cvars, pvars, tvars, yvars, rvars, qvars, hvars, evars, ivars>>

\* the method is left by a return (a response or an error) or by a panic of
\* a Must call: the deferred page.Close() runs, the context is left alone
FlowReturn(t, r) ==
    /\ gpc[t] = "flow"
    /\ gopen' = [gopen EXCEPT ![gpage[t]] = NoPage]
    /\ FlowOver(t, r)
    /\ UNCHANGED gctx
    /\ UNCHANGED <<svars, cvars, pvars, tvars, yvars, rvars, qvars, hvars, evars, ivars>>

NextLease ==
    \/ \E t \in Threads, k \in Flows, a \in SessionAccounts : FlowEnter(t, k, a)
    \/ \E t \in Threads : LeasePage(t)
    \/ \E t \in Threads : LeaseFails(t)
    \/ \E t \in Threads : FlowUse(t)
    \/ \E t \in Threads, r \in {"ok", "error", "panic"} : FlowReturn(t, r)

SpecLease == InitLease /\ [][NextLease]_vars

\* C24: an invocation has at most one page; every open page belongs to an
\* invocation that is still running and holds it, is driven by that
\* invocation only, and its context is open; so no page outlives its
\* invocation, however the invocation ended.
C24_OnePagePerInvocation ==
    /\ \A t \in Threads : gleases[t] <= 1
    /\ \A i \in PageIds :
          gopen[i].open =>
             /\ gpc[gopen[i].by] = "flow"
             /\ gpage[gopen[i].by] = i
             /\ gopen[i].users \subseteq {gopen[i].by}
             /\ gctx[gopen[i].ctx]
    /\ \A t \in Threads : gpc[t] = "idle" => \A i \in PageIds : ~(gopen[i].open /\ gopen[i].by = t)

\* both threads run a flow on the same account, each on its own page of the
\* one context, after an invocation of that account ended in a panic
C24_Witness ==
    /\ \A t \in Threads : gpc[t] = "flow" /\ gacct[t] = <<"acct1">> /\ t \in gopen[gpage[t]].users
    /\ \E t \in Threads : glast[t] = "panic"
    /\ Cardinality({i \in PageIds : gopen[i].open}) = NThreads

\* =====================================================================
\* The steps of a publish: NewPublisher, Publisher.Publish, uploadImages,
\* waitForUploadComplete, submitPublish
\* =====================================================================
InitSteps ==
    /\ SessionInit
    /\ files = [p \in AllPaths |-> NoFile]
    /\ CredIdle
    /\ XIdle

QFrame == UNCHANGED <<svars, cvars, pvars, tvars, yvars, rvars, gvars, hvars, evars, ivars>>

\* the step was carried out
QDone(step, next) ==
    /\ qlog' = Append(qlog, step)
    /\ qpc' = next
    /\ UNCHANGED qres

\* the publish ends here
QEnds(r) ==
    /\ qpc' = "end"
    /\ qres' = r
    /\ UNCHANGED qlog

\* PublishContent has its page and calls NewPublisher
QStart(n) ==
    /\ qpc = "idle"
    /\ qpc' = "nav"
    /\ qexpected' = n
    /\ UNCHANGED <<qlog, qcounts, qelapsed, qres>>
    /\ QFrame

\* pp.Navigate(publishURL); MustInfo; a URL with "login" sends to the login
QNavigate ==
    /\ qpc = "nav"
    /\ \E r \in {"nav_error", "panic", "login", "surface"} :
          IF r \in {"nav_error", "panic"} THEN QEnds(r) ELSE QDone("Navigate", r)
    /\ UNCHANGED <<qexpected, qcounts, qelapsed>>
    /\ QFrame

\* loginHandler.Login on the same page
QReauthenticate ==
    /\ qpc = "login"
    /\ \E ok \in BOOLEAN :
          IF ok THEN QDone("Reauthenticate", "renav") ELSE QEnds("login_error")
    /\ UNCHANGED <<qexpected, qcounts, qelapsed>>
    /\ QFrame

\* the navigation after the login
QRenavigate ==
    /\ qpc = "renav"
    /\ \E ok \in BOOLEAN :
          IF ok THEN QDone("Navigate", "surface") ELSE QEnds("nav_error")
    /\ UNCHANGED <<qexpected, qcounts, qelapsed>>
    /\ QFrame

\* the upload area is found by one of its selectors and awaited visible
QAwaitSurface ==
    /\ qpc = "surface"
    /\ \E ok \in BOOLEAN :
          IF ok THEN QDone("AwaitUploadSurface", "upload") ELSE QEnds("surface_error")
    /\ UNCHANGED <<qexpected, qcounts, qelapsed>>
    /\ QFrame

\* Publish's check for no image; uploadImages up to SetFiles: the files are
\* validated, the file input is found, the paths are set
QUploadAssets ==
    /\ qpc = "upload"
    /\ IF qexpected = 0
       THEN QEnds("empty_error")
       ELSE \E r \in {"file_error", "input_error", "upload_error", "ok"} :
               IF r = "ok" THEN QDone("UploadAssets", "wait") ELSE QEnds(r)
    /\ qelapsed' = 0
    /\ UNCHANGED <<qexpected, qcounts>>
    /\ QFrame

\* the loop over uploadIndicators: maxFound is raised by every selector
\* whose count is greater
RECURSIVE maxFound(_, _)
maxFound(counts, i) ==
    IF i = 0 THEN 0
    ELSE IF counts[i] > maxFound(counts, i - 1) THEN counts[i] ELSE maxFound(counts, i - 1)

\* (mutant) the poll looks at the first indicator only
QPoll_FirstIndicatorOnly ==
    /\ qpc = "wait"
    /\ qelapsed < maxWaitTime
    /\ \E counts \in [DOMAIN uploadIndicators -> 0..MaxAssets] :
          /\ qcounts' = counts
          /\ IF counts[1] >= qexpected
             THEN QDone("AwaitUploadComplete", "title") /\ UNCHANGED qelapsed
             ELSE /\ qelapsed' = qelapsed + checkInterval
                  /\ UNCHANGED <<qpc, qlog, qres>>
    /\ UNCHANGED qexpected
    /\ QFrame

\* one pass of waitForUploadComplete's loop: the counts of all indicators,
\* return nil when maxFound >= expectedCount, else time.Sleep(checkInterval)
QPoll ==
    /\ qpc = "wait"
    /\ qelapsed < maxWaitTime
    /\ \E counts \in [DOMAIN uploadIndicators -> 0..MaxAssets] :
          /\ qcounts' = counts
          /\ IF maxFound(counts, Len(uploadIndicators)) >= qexpected
             THEN QDone("AwaitUploadComplete", "title") /\ UNCHANGED qelapsed
             ELSE /\ qelapsed' = qelapsed + checkInterval
                  /\ UNCHANGED <<qpc, qlog, qres>>
    /\ UNCHANGED qexpected
    /\ QFrame

\* (mutant) the wait gives up without an error and the publish goes on
QWaitTimeout_GoesOn ==
    /\ qpc = "wait"
    /\ qelapsed >= maxWaitTime
    /\ QDone("AwaitUploadComplete", "title")
    /\ UNCHANGED <<qexpected, qcounts, qelapsed>>
    /\ QFrame

\* maxWaitTime is over: "上传超时"
QWaitTimeout ==
    /\ qpc = "wait"
    /\ qelapsed >= maxWaitTime
    /\ QEnds("upload_timeout")
    /\ UNCHANGED <<qexpected, qcounts, qelapsed>>
    /\ QFrame

\* submitPublish: the title input is found and the title typed
QFillTitle ==
    /\ qpc = "title"
    /\ \E ok \in BOOLEAN :
          IF ok THEN QDone("FillTitle", "body") ELSE QEnds("title_error")
    /\ UNCHANGED <<qexpected, qcounts, qelapsed>>
    /\ QFrame

\* getContentElement (MustDo panics) and contentElem.Input(content)
QFillBody ==
    /\ qpc = "body"
    /\ \E r \in {"ok", "content_error", "panic"} :
          IF r = "ok" THEN QDone("FillBody", "tags") ELSE QEnds(r)
    /\ UNCHANGED <<qexpected, qcounts, qelapsed>>
    /\ QFrame

\* inputTags: its Must calls panic on a failure
QFillTags ==
    /\ qpc = "tags"
    /\ \E ok \in BOOLEAN :
          IF ok THEN QDone("FillTags", "click") ELSE QEnds("panic")
    /\ UNCHANGED <<qexpected, qcounts, qelapsed>>
    /\ QFrame

\* the submit button is found and clicked
QSubmit ==
    /\ qpc = "click"
    /\ \E ok \in BOOLEAN :
          IF ok THEN qlog' = Append(qlog, "Submit") /\ qpc' = "end" /\ qres' = "ok"
          ELSE QEnds("submit_error")
    /\ UNCHANGED <<qexpected, qcounts, qelapsed>>
    /\ QFrame

\* PublishContent returns
QReturn ==
    /\ qpc = "end"
    /\ qpc' = "idle"
    /\ qlog' = <<>>
    /\ qexpected' = 0
    /\ qcounts' = [s \in DOMAIN uploadIndicators |-> 0]
    /\ qelapsed' = 0
    /\ qres' = "none"
    /\ QFrame

NextSteps ==
    \/ \E n \in 0..MaxAssets : QStart(n)
    \/ QNavigate
    \/ QReauthenticate
    \/ QRenavigate
    \/ QAwaitSurface
    \/ QUploadAssets
    \/ QPoll
    \/ QWaitTimeout
    \/ QFillTitle
    \/ QFillBody
    \/ QFillTags
    \/ QSubmit
    \/ QReturn

SpecSteps == InitSteps /\ [][NextSteps]_vars

\* the loop of waitForUploadComplete is a loop of the request's goroutine:
\* it goes on as long as it can
SpecStepsFair == SpecSteps /\ WF_vars(QPoll) /\ WF_vars(QWaitTimeout)

IsPrefix(s, t) == Len(s) <= Len(t) /\ SubSeq(t, 1, Len(s)) = s

StepOrder ==
    <<"Navigate", "AwaitUploadSurface", "UploadAssets", "AwaitUploadComplete",
      "FillTitle", "FillBody", "FillTags", "Submit">>

StepOrderReauth == <<"Navigate", "Reauthenticate">> \o StepOrder

Logged(step) == \E i \in DOMAIN qlog : qlog[i] = step

\* C25: the steps carried out are always a prefix of the fixed order (with or
\* without the login and its second navigation); the submit control is
\* clicked only after a poll saw the expected count of uploaded items; a
\* publish that ended in an error or a panic never clicked it.
C25_StepsInOrder ==
    /\ IsPrefix(qlog, StepOrder) \/ IsPrefix(qlog, StepOrderReauth)
    /\ Logged("Submit") =>
          /\ qexpected > 0
          /\ \E s \in DOMAIN uploadIndicators : qcounts[s] >= qexpected
    /\ (qpc = "end" /\ qres # "ok") => ~Logged("Submit")
    /\ (qpc = "end" /\ qres = "ok") => qlog \in {StepOrder, StepOrderReauth}

\* a publish that logged in on the way, waited through polls that fell short
\* and ended with the click
C25_Witness ==
    /\ qpc = "end" /\ qres = "ok"
    /\ qlog = StepOrderReauth
    /\ qelapsed > 0
    /\ qexpected = MaxAssets

\* C27: the wait goes on to the metadata only when some indicator of the
\* last poll counted at least the expected number; while it waits, and when
\* it returns the timeout error, no indicator of the last poll did; the
\* timeout error comes only when maxWaitTime is over; and the wait always
\* ends.
C27_UploadWaitLaw ==
    /\ [](Logged("AwaitUploadComplete")
            => \E s \in DOMAIN uploadIndicators : qcounts[s] >= qexpected)
    /\ []((qpc = "wait" /\ qelapsed > 0)
            => \A s \in DOMAIN uploadIndicators : qcounts[s] < qexpected)
    /\ [](qres = "upload_timeout"
            => /\ qelapsed >= maxWaitTime
               /\ \A s \in DOMAIN uploadIndicators : qcounts[s] < qexpected)
    /\ [](qpc = "wait" => qelapsed <= maxWaitTime)
    /\ ((qpc = "wait") ~> (qpc # "wait"))

\* the wait ended in the timeout error
C27_Witness ==
    /\ qpc = "end"
    /\ qres = "upload_timeout"
    /\ qelapsed = maxWaitTime
    /\ qexpected = MaxAssets
    /\ qcounts[1] < qcounts[2]

\* =====================================================================
\* The challenge of one login attempt: triggerLoginQRCode, then
\* waitAndDisplayQRCode, then the completion wait
\* =====================================================================
loginSelectors ==
    << ".login-btn", ".sign-btn", "[data-testid='login-button']",
       "button[class*='login']", "a[href*='login']", ".header-login",
       "button[type='button']", ".btn-login", "[role='button']" >>

\* the strategies of triggerLoginQRCode in the order the code goes through them
Strategies == <<"direct">> \o loginSelectors

InitChallenge ==
    /\ SessionInit
    /\ files = [p \in AllPaths |-> NoFile]
    /\ CredIdle
    /\ XIdle

HFrame == UNCHANGED <<svars, cvars, pvars, tvars, yvars, rvars, gvars, qvars, evars, ivars>>

HEnds(r) ==
    /\ hpc' = "done"
    /\ hres' = r

\* Login.Login found no login marker on the explore page and calls
\* triggerLoginQRCode
HStart ==
    /\ hpc \in {"none", "done"}
    /\ hpc' = "nav"
    /\ hdone' = FALSE
    /\ hi' = 0
    /\ hlog' = <<>>
    /\ hqr' = FALSE
    /\ hel' = "none"
    /\ harts' = <<>>
    /\ hdisp' = <<>>
    /\ hres' = "none"
    /\ HFrame

\* the caller cancels its context, or its deadline passes
HCancel ==
    /\ hpc \in {"nav", "trigger", "probe", "artifact", "display", "wait"}
    /\ ~hdone
    /\ hdone' = TRUE
    /\ UNCHANGED <<hpc, hi, hlog, hqr, hel, harts, hdisp, hres>>
    /\ HFrame

\* page.MustNavigate(".../login").MustWaitLoad(), 3 s, page.Has(".qrcode-img"):
\* with the QR code on the page triggerLoginQRCode returns
HNavigate ==
    /\ hpc = "nav"
    /\ hlog' = Append(hlog, "direct")
    /\ \/ /\ hdone                          \* MustNavigate panics
          /\ HEnds("panic")
          /\ UNCHANGED <<hi, hqr>>
       \/ /\ ~hdone
          /\ \E qr \in BOOLEAN :
                /\ hqr' = qr
                /\ hpc' = IF qr THEN "probe" ELSE "trigger"
                /\ hi' = IF qr THEN 0 ELSE 1
          /\ UNCHANGED hres
    /\ UNCHANGED <<hdone, hel, harts, hdisp>>
    /\ HFrame

\* one pass of the loop over loginSelectors. page.Element(selector) waits for
\* the element until the context is done, so an absent selector is passed
\* only with the context done; a found element is clicked; a failed click
\* goes on to the next selector; after a click that succeeded, 3 s and
\* page.Has(".qrcode-img"), triggerLoginQRCode returns nil with or without
\* the QR code
HTrigger ==
    /\ hpc = "trigger"
    /\ hi \in DOMAIN loginSelectors
    /\ hlog' = Append(hlog, loginSelectors[hi])
    /\ \/ /\ hdone                          \* page.Element: context error
          /\ hi' = hi + 1
          /\ UNCHANGED <<hpc, hqr>>
       \/ /\ ~hdone                         \* found, elem.Click fails
          /\ hi' = hi + 1
          /\ UNCHANGED <<hpc, hqr>>
       \/ /\ ~hdone                         \* found and clicked
          /\ \E qr \in BOOLEAN : hqr' = qr
          /\ hpc' = "probe"
          /\ hi' = 0
    /\ UNCHANGED <<hdone, hel, harts, hdisp, hres>>
    /\ HFrame

\* the loop is over with no element clicked: "未找到登录按钮", return nil
HNoTrigger ==
    /\ hpc = "trigger"
    /\ hi = Len(loginSelectors) + 1
    /\ hpc' = "probe"
    /\ hi' = 0
    /\ UNCHANGED <<hdone, hlog, hqr, hel, harts, hdisp, hres>>
    /\ HFrame

\* one pass of the probe loop of waitAndDisplayQRCode (i < 30): a visible
\* element of qrSelectors ends the loop; with the context done every page
\* call fails and page.MustInfo() of the debug output panics; else 1 s of
\* sleep
HProbe ==
    /\ hpc = "probe"
    /\ hi < QRProbes
    /\ \/ /\ ~hdone
          /\ \E e \in {"src", "nosrc"} : hel' = e
          /\ hpc' = "artifact"
          /\ UNCHANGED <<hi, hres>>
       \/ /\ hdone /\ hi > 0 /\ hi % QRDebugEvery = 0
          /\ HEnds("panic")
          /\ UNCHANGED <<hi, hel>>
       \/ /\ ~(hdone /\ hi > 0 /\ hi % QRDebugEvery = 0)
          /\ hi' = hi + 1
          /\ UNCHANGED <<hpc, hel, hres>>
    /\ UNCHANGED <<hdone, hlog, hqr, harts, hdisp>>
    /\ HFrame

\* qrElement == nil after the loop: "未找到二维码元素，请检查登录页面"
HGiveUp ==
    /\ hpc = "probe"
    /\ hi = QRProbes
    /\ HEnds("qr_not_found")
    /\ UNCHANGED <<hdone, hi, hlog, hqr, hel, harts, hdisp>>
    /\ HFrame

\* qrElement.Attribute("src"): the src when there is one; else
\* qrElement.Screenshot and os.WriteFile("qrcode_login.png"), whose errors
\* are returned
HArtifact ==
    /\ hpc = "artifact"
    /\ \/ /\ ~hdone /\ hel = "src"
          /\ harts' = Append(harts, "src")
          /\ hpc' = "display"
          /\ UNCHANGED hres
       \/ /\ ~hdone /\ hel = "nosrc"
          /\ harts' = Append(harts, "shot")
          /\ hpc' = "display"
          /\ UNCHANGED hres
       \/ /\ hdone \/ hel = "nosrc"          \* Screenshot fails
          /\ HEnds("shot_err")
          /\ UNCHANGED harts
       \/ /\ ~hdone /\ hel = "nosrc"         \* os.WriteFile fails
          /\ HEnds("save_err")
          /\ UNCHANGED harts
    /\ UNCHANGED <<hdone, hi, hlog, hqr, hel, hdisp>>
    /\ HFrame

\* (mutant) a failed display is tried once more
HDisplay_Retries ==
    /\ hpc = "display"
    /\ \E o \in {"ok", "fail"} :
          /\ hdisp' = Append(hdisp, o)
          /\ hpc' = IF o = "fail" /\ hdisp = <<>> THEN "display" ELSE "wait"
    /\ UNCHANGED <<hdone, hi, hlog, hqr, hel, harts, hres>>
    /\ HFrame

\* qrDisplay.DisplayQRCode(...): its error is logged and waitAndDisplayQRCode
\* returns nil
HDisplay ==
    /\ hpc = "display"
    /\ \E o \in {"ok", "fail"} : hdisp' = Append(hdisp, o)
    /\ hpc' = "wait"
    /\ UNCHANGED <<hdone, hi, hlog, hqr, hel, harts, hres>>
    /\ HFrame

\* waitForLoginSuccess and the rest of Login.Login, by their outcome
HWaitEnds ==
    /\ hpc = "wait"
    /\ \/ ~hdone /\ HEnds("ok")
       \/ hdone /\ HEnds("ctx_err")
       \/ HEnds("login_timeout")
    /\ UNCHANGED <<hdone, hi, hlog, hqr, hel, harts, hdisp>>
    /\ HFrame

NextChallenge ==
    \/ HStart
    \/ HCancel
    \/ HNavigate
    \/ HTrigger
    \/ HNoTrigger
    \/ HProbe
    \/ HGiveUp
    \/ HArtifact
    \/ HDisplay
    \/ HWaitEnds

SpecChallenge == InitChallenge /\ [][NextChallenge]_vars

\* C29: the strategies are tried in their fixed order, the direct
\* navigation first; the discovery stops only after a strategy that left the
\* challenge detectable (or with every strategy tried), and goes no further
\* once it is detectable; and an attempt whose probes found no element ends
\* in the element-not-found error without artifact, display or completion
\* wait.
C29_StopsAtFirstDetectable ==
    /\ [](IsPrefix(hlog, Strategies))
    /\ [][(hpc \in {"nav", "trigger"} /\ hpc' = "probe")
             => hqr' \/ hlog' = Strategies]_vars
    /\ [][(hpc \in {"nav", "trigger"} /\ hqr') => hpc' = "probe"]_vars
    /\ [][(hpc = "probe" /\ hi = QRProbes /\ hpc' # hpc)
             => hpc' = "done" /\ hres' = "qr_not_found"]_vars
    /\ [](hres = "qr_not_found" => hel = "none" /\ harts = <<>> /\ hdisp = <<>>)
    /\ [](hpc = "wait" => hel # "none")

\* what Attribute("src") of the element found gives the display
ArtifactOf(el) == IF el = "src" THEN "src" ELSE "shot"

\* C30 as stated: every attempt that found the challenge element obtains
\* exactly one artifact, the src of the element when it has one and else its
\* screenshot, then makes exactly one display call and, whatever the display
\* returned, goes on to the completion wait.
C30_ExactlyOneArtifactOneDisplay ==
    /\ [](Len(harts) <= 1 /\ Len(hdisp) <= 1)
    /\ [][(hpc = "artifact" /\ hpc' # hpc)
             => hpc' = "display" /\ harts' = <<ArtifactOf(hel)>>]_vars
    /\ [][(hpc = "display" /\ hpc' # hpc)
             => hpc' = "wait" /\ Len(hdisp') = 1 /\ harts' = harts]_vars
    /\ [](hpc = "wait" => Len(harts) = 1 /\ Len(hdisp) = 1)

\* C30 (amended): an attempt that found the challenge element obtains at most
\* one artifact, the src of the element when it has one and else its
\* screenshot; with the artifact it makes exactly one display call and,
\* whatever the display returned, goes on to the completion wait; when the
\* src cannot be read and the screenshot cannot be taken or saved, the
\* attempt ends in that error with no artifact, no display call and no
\* completion wait.
C30_OneArtifactUnlessCaptureFails ==
    /\ [](Len(harts) <= 1 /\ Len(hdisp) <= 1)
    /\ [][(hpc = "artifact" /\ hpc' # hpc)
             => \/ /\ hpc' = "display"
                   /\ harts' = <<ArtifactOf(hel)>>
                   /\ hdisp' = <<>>
                \/ /\ hpc' = "done"
                   /\ hres' \in {"shot_err", "save_err"}
                   /\ hel = "nosrc" \/ hdone
                   /\ harts' = <<>>
                   /\ hdisp' = <<>>]_vars
    /\ [][(hpc = "display" /\ hpc' # hpc)
             => hpc' = "wait" /\ Len(hdisp') = 1 /\ harts' = harts]_vars
    /\ [](hpc = "wait" => Len(harts) = 1 /\ Len(hdisp) = 1)
    /\ [](hres \in {"shot_err", "save_err"} => harts = <<>> /\ hdisp = <<>>)

\* the screenshot of an element without src was displayed, the display
\* failed, and the attempt is in the completion wait
C30_Witness ==
    /\ hpc = "wait"
    /\ hel = "nosrc"
    /\ harts = <<"shot">>
    /\ hdisp = <<"fail">>

\* C31: the diagnostic capture of the probe loop (the page-info logging of
\* every tenth probe, the page screenshot before the not-found error) never
\* changes how the attempt goes on: the probe loop is left only with the
\* element found or, the probes used up, with the not-found error, and never
\* in a panic.
C31_CaptureNeverRaises ==
    [][(hpc = "probe" /\ hpc' # hpc)
          => \/ hpc' = "artifact" /\ hres' = "none"
             \/ hpc' = "done" /\ hres' = "qr_not_found" /\ hi = QRProbes]_vars

\* C32: a new Service has no connection; connect() (NewBrowser) is started
\* only with no connection installed and no other connect() running; every
\* connect() that is left has installed its connection, so that no second
\* one is made; and every operation that getBrowser answers is given that
\* connection.
C32_OneConnectForFirstOperations ==
    /\ conns = <<>> /\ browser = 0
    /\ [][\A t \in Threads :
             (pc[t] = "idle" /\ pc'[t] = "nb_start")
                => /\ browser = 0
                   /\ \A u \in Threads :
                         pc[u] \notin {"nb_start", "nb_select", "nb_restart",
                                       "nb_restarting", "nb_retry"}]_vars
    /\ [][\A t \in Threads :
             (/\ pc[t] \in {"nb_start", "nb_select", "nb_restart",
                            "nb_restarting", "nb_retry"}
              /\ pc'[t] \notin {"nb_start", "nb_select", "nb_restart",
                                "nb_restarting", "nb_retry"})
                => pc'[t] = "np_ctx" /\ browser' # 0]_vars
    /\ [][\A t \in Threads :
             (pc[t] # "np_ctx" /\ pc'[t] = "np_ctx")
                => browser' # 0 /\ handle'[t] = browser']_vars

\* C33: a Login that reports success has written the cookies of its account
\* to the store: when SaveCookies fails, Login does not report success.
C33_SuccessMeansPersisted ==
    \A t \in Threads :
        (lpc[t] = "lg_end" /\ result[t] = "ok") => wrote[t]

\* C34: once a logout has removed the stored credential of an account, the
\* browser context of that account holds no session of the earlier login, so
\* that the next page leased for it carries no cookie of that session.
C34_LogoutEndsSession ==
    [][\A a \in CredAccounts :
          (/\ files[getCookiesFilePath(a)].exists
           /\ files[getCookiesFilePath(a)].savedAs = a
           /\ ~files'[getCookiesFilePath(a)].exists)
             => ~jar'[a]
      ]_vars

\* C37: a status check, whatever it returns, leaves every stored credential
\* as it was: no cookie file is created, changed or removed by it.
C37_StatusCheckLeavesStore ==
    [][\A t \in Threads :
          (\/ lpc[t] = "idle" /\ lpc'[t] = "cs_end"
           \/ lpc[t] = "cs_end" /\ lpc'[t] = "idle")
             => files' = files
      ]_vars

\* a status check answered authenticated for an account whose credential a
\* login of that account had stored
C37_Witness ==
    \E t \in Threads :
        /\ lpc[t] = "cs_end"
        /\ result[t] = "authenticated"
        /\ lacct[t] # DefaultAccount
        /\ LoadCookies(lacct[t]).exists
        /\ LoadCookies(lacct[t]).savedAs = lacct[t]

\* C38: in getOrCreateIncognitoContext a goroutine holds the read lock only
\* during its first lookup and the write lock only during its second lookup
\* and the creation; it asks for the write lock with the read lock released;
\* the write lock is released when the second lookup ends, also by the panic
\* of the creation; and whenever a goroutine waits for one of the locks, a
\* holder of that lock is at a step that releases it: no deadlock.
C38_ContextLocksNeverDeadlock ==
    /\ [](\A c \in DOMAIN contextsMux :
             /\ \A t \in contextsMux[c].readers :
                   pc[t] = "ctx_rcheck" /\ handle[t] = c
             /\ contextsMux[c].writer # 0
                   => /\ pc[contextsMux[c].writer] = "ctx_wcheck"
                      /\ handle[contextsMux[c].writer] = c
                      /\ contextsMux[c].readers = {})
    /\ [](\A t \in Threads :
             pc[t] = "ctx_wlock" => t \notin contextsMux[handle[t]].readers)
    /\ [][\A t \in Threads :
             (pc[t] = "ctx_wcheck" /\ pc'[t] # "ctx_wcheck" /\ process' = "running")
                => /\ pc'[t] \in {"np_page", "np_recover"}
                   /\ contextsMux'[handle[t]].writer = 0]_vars
    /\ [](\A t \in Threads :
             (/\ Running
              /\ \/ pc[t] = "ctx_wlock"
                 \/ pc[t] = "np_ctx" /\ acct[t] # DefaultAccount
              /\ ~ENABLED (CtxWriteLock(t) \/ CtxEnter(t)))
                => \E u \in Threads \ {t} :
                      /\ handle[u] = handle[t]
                      /\ ENABLED (CtxReadCheck(u) \/ CtxWriteCheck(u)))

\* the creation of one request panicked on a lost connection, and another
\* request holds the write lock of the same connection after it
C38_Witness ==
    \E t, u \in Threads :
        /\ pc[t] = "np_recover"
        /\ acct[t] # DefaultAccount
        /\ ctx[t] = NoCtx
        /\ pc[u] = "ctx_wcheck"
        /\ handle[u] = handle[t]
        /\ contextsMux[handle[t]].writer = u

\* =====================================================================
\* The publish endpoint: HTTPServer.xhsPublishHandler and the success sets
\* it keeps in Redis
\* =====================================================================
MaxPublished == 2    \* successful publishes of one <<account, URL>>

InitLedger ==
    /\ SessionInit
    /\ files = [p \in AllPaths |-> NoFile]
    /\ CredIdle
    /\ XIdle

EFrame == UNCHANGED <<svars, cvars, pvars, tvars, yvars, rvars, gvars, qvars, hvars, ivars>>

\* the handler answers the request
HandlerEnds(t, r) ==
    /\ eres' = [eres EXCEPT ![t] = r]
    /\ epc' = [epc EXCEPT ![t] = "done"]

\* the request is bound, its account id settled, and SIsMember asked whether
\* req.URL is in the success set of the account: an error and a member both
\* end the request before PublishContent
HandlerCheck(t, k) ==
    /\ epc[t] = "idle"
    /\ ekey' = [ekey EXCEPT ![t] = k]
    /\ \E r \in {"bad_request", "redis_error", "answer"} :
          CASE r = "bad_request" -> HandlerEnds(t, "INVALID_REQUEST")
            [] r = "redis_error" -> HandlerEnds(t, "REDIS_CHECK_FAILED")
            [] r = "answer" ->
                  IF k \in ledger
                  THEN HandlerEnds(t, "TITLE_ALREADY_PUBLISHED")
                  ELSE epc' = [epc EXCEPT ![t] = "publish"] /\ UNCHANGED eres
    /\ UNCHANGED <<ledger, pubs>>
    /\ EFrame

\* s.xhsService.PublishContent(ctx, &req)
HandlerPublish(t) ==
    /\ epc[t] = "publish"
    /\ \/ /\ pubs[ekey[t]] < MaxPublished
          /\ pubs' = [pubs EXCEPT ![ekey[t]] = @ + 1]
          /\ epc' = [epc EXCEPT ![t] = "record"]
          /\ UNCHANGED eres
       \/ /\ HandlerEnds(t, "XHS_PUBLISH_FAILED")
          /\ UNCHANGED pubs
    /\ UNCHANGED <<ekey, ledger>>
    /\ EFrame

\* s.redisClient.SAdd(ctx, redisKey, req.URL): its result is not read (the
\* err tested after it is the nil of PublishContent), then respondSuccess
HandlerRecord(t) ==
    /\ epc[t] = "record"
    /\ \E added \in BOOLEAN :
          ledger' = IF added THEN ledger \cup {ekey[t]} ELSE ledger
    /\ HandlerEnds(t, "ok")
    /\ UNCHANGED <<ekey, pubs>>
    /\ EFrame

\* the handler returns
HandlerReturn(t) ==
    /\ epc[t] = "done"
    /\ epc' = [epc EXCEPT ![t] = "idle"]
    /\ ekey' = [ekey EXCEPT ![t] = <<DefaultAccount, "url1">>]
    /\ eres' = [eres EXCEPT ![t] = "none"]
    /\ UNCHANGED <<ledger, pubs>>
    /\ EFrame

NextLedger ==
    \/ \E t \in Threads, k \in LedgerKeys : HandlerCheck(t, k)
    \/ \E t \in Threads : HandlerPublish(t)
    \/ \E t \in Threads : HandlerRecord(t)
    \/ \E t \in Threads : HandlerReturn(t)

SpecLedger == InitLedger /\ [][NextLedger]_vars

\* C35: no <<account, URL>> is published with success more than once; a
\* request whose pair is in the ledger does not reach PublishContent; and a
\* pair is in the ledger only after a publish of it succeeded.
C35_PublishedAtMostOnce ==
    /\ [](\A k \in LedgerKeys : pubs[k] <= 1)
    /\ [][\A t \in Threads :
             (epc[t] = "idle" /\ epc'[t] = "publish") => ekey'[t] \notin ledger]_vars
    /\ [](\A k \in ledger : pubs[k] >= 1)

\* =====================================================================
\* The images of a request: ImageProcessor.ProcessImages, then the checks
\* of Publisher.uploadImages on the paths it returned
\* =====================================================================
\* what os.Stat gives for a path: a regular file of some MB, a file of more
\* than 20 MB, ENOENT, or another error (EACCES on a directory of the path)
StatKinds == {"file", "big", "missing", "denied"}

\* an image of the request: a local path (scheme "") or a URL
ImageInputs ==
    { [scheme |-> "", name |-> "a.jpg"],
      [scheme |-> "", name |-> "b.jpg"],
      [scheme |-> "https", name |-> "c"] }

RECURSIVE ImageBatches(_)
ImageBatches(n) ==
    IF n = 0 THEN {<<>>}
    ELSE LET shorter == ImageBatches(n - 1) IN
         shorter \cup {Append(q, a) : q \in shorter, a \in ImageInputs}

\* strings.HasPrefix(image, "http://") || strings.HasPrefix(image, "https://")
isURL(image) == image.scheme \in {"http", "https"}

\* filepath.Join(downloadDir, "img_<md5 of the URL>.<ext>")
DownloadPath(image) == "/tmp/xhs-poster/img_" \o image.name \o ".jpg"

\* downloadImage: the file path, or the error of the request, the status or
\* the write
downloadImage(image) ==
    IF ifetch
    THEN [err |-> FALSE, path |-> DownloadPath(image)]
    ELSE [err |-> TRUE, path |-> ""]

\* processImage: a URL is downloaded; a local path is returned as it is when
\* os.Stat of it returns no error
processImage(image) ==
    IF isURL(image) THEN downloadImage(image)
    ELSE IF istat[image.name] \in {"missing", "denied"}
    THEN [err |-> TRUE, path |-> ""]
    ELSE [err |-> FALSE, path |-> image.name]

RECURSIVE ProcessLoop_SkipsFailed(_, _)
RECURSIVE ProcessLoop(_, _)
\* (mutant) an image that cannot be processed is left out
ProcessLoop_SkipsFailed(images, paths) ==
    IF images = <<>> THEN [paths |-> paths, err |-> FALSE]
    ELSE LET r == processImage(Head(images)) IN
         IF r.err THEN ProcessLoop_SkipsFailed(Tail(images), paths)
         ELSE ProcessLoop_SkipsFailed(Tail(images), Append(paths, r.path))

\* the loop of ProcessImages: the first error returns (nil, err)
ProcessLoop(images, paths) ==
    IF images = <<>> THEN [paths |-> paths, err |-> FALSE]
    ELSE LET r == processImage(Head(images)) IN
         IF r.err THEN [paths |-> <<>>, err |-> TRUE]
         ELSE ProcessLoop(Tail(images), Append(paths, r.path))

ProcessImages(images) == ProcessLoop(images, <<>>)

\* the files downloadImage wrote before ProcessImages returned
Downloaded(images) ==
    LET bad == {i \in DOMAIN images : processImage(images[i]).err}
    IN {DownloadPath(images[i]) :
           i \in {j \in DOMAIN images : isURL(images[j]) /\ \A b \in bad : j < b}}

InitImages ==
    /\ SessionInit
    /\ files = [p \in AllPaths |-> NoFile]
    /\ CredIdle
    /\ PubIdle
    /\ TitleIdle
    /\ YIdle
    /\ JarIdle
    /\ LeaseIdle
    /\ StepsIdle
    /\ ChallengeIdle
    /\ LedgerIdle
    /\ ipc = "request"
    /\ imgs \in ImageBatches(MaxAssets)
    /\ istat \in [LocalPaths -> StatKinds]
    /\ ifetch \in BOOLEAN
    /\ ipaths = <<>>
    /\ ierr = FALSE
    /\ ires = "none"

IFrame == UNCHANGED <<svars, cvars, pvars, tvars, yvars, rvars, gvars, qvars, hvars, evars>>

\* Service.processImages: ProcessImages(req.Images); the files of the URLs
\* it downloaded are in downloadDir
processImages ==
    /\ ipc = "request"
    /\ ipaths' = ProcessImages(imgs).paths
    /\ ierr' = ProcessImages(imgs).err
    /\ \E s \in {"file", "big"} :
          istat' = [p \in LocalPaths |-> IF p \in Downloaded(imgs) THEN s ELSE istat[p]]
    /\ ipc' = "processed"
    /\ UNCHANGED <<imgs, ifetch, ires>>
    /\ IFrame

\* a file is removed, replaced or made unreadable while the request leases
\* its page, navigates and logs in
StatChanges(p, s) ==
    /\ ipc = "processed"
    /\ ~ierr
    /\ istat[p] # s
    /\ istat' = [istat EXCEPT ![p] = s]
    /\ UNCHANGED <<ipc, imgs, ifetch, ipaths, ierr, ires>>
    /\ IFrame

\* the loop of uploadImages over the paths: stat, err := os.Stat(path); only
\* os.IsNotExist(err) returns; after another error stat is nil and
\* stat.Size() panics; a size over 20 MB returns
RECURSIVE ValidatePaths(_)
ValidatePaths(paths) ==
    IF paths = <<>> THEN "passed"
    ELSE CASE istat[Head(paths)] = "missing" -> "missing_error"
           [] istat[Head(paths)] = "denied" -> "panic"
           [] istat[Head(paths)] = "big" -> "too_big_error"
           [] istat[Head(paths)] = "file" -> ValidatePaths(Tail(paths))

\* Publisher.Publish: no path is an error; then uploadImages up to the lookup
\* of the file input
uploadImages ==
    /\ ipc = "processed"
    /\ ~ierr
    /\ ires' = IF ipaths = <<>> THEN "empty_error" ELSE ValidatePaths(ipaths)
    /\ ipc' = "validated"
    /\ UNCHANGED <<imgs, istat, ifetch, ipaths, ierr>>
    /\ IFrame

NextImages ==
    \/ processImages
    \/ \E p \in LocalPaths, s \in StatKinds : StatChanges(p, s)
    \/ uploadImages

SpecImages == InitImages /\ [][NextImages]_vars

\* C36: when os.Stat of one of the paths gives an error, of whatever kind,
\* the checks of uploadImages end in an error and not in a panic, and the
\* paths pass only when every one of them was inspected.
C36_UninspectedAssetIsAnError ==
    ipc = "validated"
        => /\ ires # "panic"
           /\ (\E i \in DOMAIN ipaths : istat[ipaths[i]] \in {"missing", "denied"})
                 => ires \in {"missing_error", "too_big_error"}
           /\ ires = "passed" => \A i \in DOMAIN ipaths : istat[ipaths[i]] = "file"

====
